---- MODULE Spec2Model ----
(***************************************************************************)
(* Script execution sandbox of script_runner.py: ScriptExecutor.execute    *)
(* (the supervisor), _worker_process (the child process) and safe_import   *)
(* (the restricted import hook).                                           *)
(*                                                                         *)
(* One behaviour is one call execute(code, input_str, timeout).  The       *)
(* executed script is an input: the child runs it one statement at a time, *)
(* and every statement is drawn from a small set of statement forms, so    *)
(* the behaviours cover every script of at most MaxSteps executed          *)
(* statements.  Scripts are straight-line: an error a statement raises     *)
(* propagates out of exec().                                               *)
(*                                                                         *)
(* Python str values are sequences of chunks ("" is <<>>, + is \o); other  *)
(* Python values are tagged records.                                       *)
(***************************************************************************)
EXTENDS Integers, Sequences, FiniteSets, TLC

\* ------------------------------------------------------------- bounds
MaxSteps == 3        \* statements one script executes
MaxClock == 2        \* clock ticks in one behaviour
MaxTimeout == 2      \* largest timeout argument tried

\* ------------------------------------------------------------- values
None == [t |-> "NoneType"]
Str(s) == [t |-> "str", s |-> s]
IntVal(n) == [t |-> "int", v |-> n]

\* dict.get(key, default) and d[key] = value on the manager's dict
Get(d, k, default) == IF k \in DOMAIN d THEN d[k] ELSE default
Put(d, k, v) == [q \in (DOMAIN d) \cup {k} |-> IF q = k THEN v ELSE d[q]]
EmptyDict == [q \in {} |-> None]

\* ------------------------------------------------------------- inputs
Timeouts == 1..MaxTimeout
StdinTexts == { <<>>, <<"x", "\n", "y", "\n">>, <<"x", "\f", "y">> }
PrintTexts == {"a", "b"}
Prompts == {"", "p"}                     \* "" stands for no prompt

\* str.splitlines() cuts at every line boundary and gives no empty last line.
\* Its boundaries are \n, \r, \r\n, \v, \f, \x1c, \x1d, \x1e, \x85, \u2028 and
\* \u2029; the form feed stands for those that are not a newline.
LineBoundaries == {"\n", "\f"}

RECURSIVE SplitLines(_)
SplitLines(s) ==
  IF s = <<>> THEN <<>>
  ELSE LET nl == {i \in 1..Len(s) : s[i] \in LineBoundaries} IN
       IF nl = {} THEN <<s>>
       ELSE LET i == CHOOSE j \in nl : \A k \in nl : j <= k IN
            <<SubSeq(s, 1, i - 1)>> \o SplitLines(SubSeq(s, i + 1, Len(s)))

\* ------------------------------------------------------- safe_import
blocked_modules ==
  {"os", "sys", "subprocess", "shutil", "builtins", "pathlib", "importlib"}

\* a condition that looks at the module name only
safe_import_denies_name_only(name, fromlist) == name \in blocked_modules

\* the condition of line 25
safe_import_denies(name, fromlist) ==
  name \in blocked_modules \/ (fromlist # {} /\ \E m \in fromlist : m \in blocked_modules)

ImportErrorMessage(name) ==
  <<"Import of '", name, "' is not allowed for security reasons">>

\* The modules the scripts import, with the top-level package of each:
\* __import__("a.b") with an empty fromlist returns package a.
TopLevelPackage ==
  [m \in {"os", "os.path", "socket", "math"} |->
     IF m = "os.path" THEN "os" ELSE m]
Modules == DOMAIN TopLevelPackage

\* import statement forms: import name / from name import fromlist
ImportForms ==
  { [name |-> "os", fromlist |-> {}],
    [name |-> "os.path", fromlist |-> {}],
    [name |-> "socket", fromlist |-> {}],
    [name |-> "os.path", fromlist |-> {"join"}],
    [name |-> "math", fromlist |-> {"os"}] }

\* What the import statement binds in the namespace when __import__ returns:
\* import a.b binds the package a; from a import b binds the attribute b of a.
ModuleObject(m) == [module |-> m, attr |-> ""]
ImportBinds(name, fromlist) ==
  IF fromlist = {} THEN {ModuleObject(TopLevelPackage[name])}
  ELSE {[module |-> name, attr |-> a] : a \in fromlist}

\* --------------------------------------------------- allowed built-ins
\* the table with open left in
AllowedBuiltinsWithOpen ==
  {"print", "len", "range", "str", "int", "float", "list", "dict", "set",
   "tuple", "bool", "True", "False", "None", "abs", "all", "any",
   "enumerate", "filter", "isinstance", "map", "max", "min", "round",
   "sorted", "sum", "zip", "__import__", "Exception", "ValueError",
   "TypeError", "IndexError", "KeyError", "AttributeError", "NameError",
   "ImportError", "RuntimeError", "open"}

\* lines 203-241
AllowedBuiltins ==
  {"print", "len", "range", "str", "int", "float", "list", "dict", "set",
   "tuple", "bool", "True", "False", "None", "abs", "all", "any",
   "enumerate", "filter", "isinstance", "map", "max", "min", "round",
   "sorted", "sum", "zip", "__import__", "Exception", "ValueError",
   "TypeError", "IndexError", "KeyError", "AttributeError", "NameError",
   "ImportError", "RuntimeError"}

\* names the scripts bind themselves, and the names they reference
UserNames == {"main", "helper"}
RefNames == {"len", "open"}
CallNames == {"main", "helper"}

\* ---------------------------------------------------------- exceptions
NoExc == [type |-> "none"]
Exc(type, msg, isExc) == [type |-> type, msg |-> msg, is_exception |-> isExc]
NameErrorOf(n) == Exc("NameError", <<"name '", n, "' is not defined">>, TRUE)
RaisedErrors ==
  { Exc("ValueError", <<"boom">>, TRUE),
    Exc("ValueError", <<>>, TRUE),
    Exc("BaseException", <<"halt">>, FALSE) }

\* traceback.print_exc(): header, frames, then "Type: message"
Traceback(e) ==
  <<"Traceback (most recent call last):\n", e.type, ": ">> \o e.msg \o <<"\n">>

TimeoutMessage == <<"Timeout exceeded">>

VARIABLES
  \* execute(): arguments and locals
  input_str, timeout, pc, start_time, execution_time, return_dict, ret,
  timed_out, deadline,
  \* the wall clock
  clock,
  \* the child process
  cpc, frame, stdout_capture, stderr_capture, input_iter, builtins,
  local_scope, exc, sigterm_ignored, exit_cause, steps,
  \* whether a process the script started is running
  descendant,
  \* history of the script's execution
  bound_modules, refused, refs, main_result, main_calls, plain,
  \* history of the calls of print and input: the calls in program order,
  \* the values input() returned, the number of calls of input()
  events, input_vals, input_calls

\* Two calls of execute() side by side (IsoSpec): per call the supervisor's
\* position, the stdin text, the child's position, its capture buffer, its
\* input iterator, the number of statements it ran, the returned record and
\* the text its own statements produced; per result channel the manager's
\* dict; per process the object installed as sys.stdout and the one
\* redirect_stdout put aside; per table of built-ins the names it holds, and
\* per call the table as the call's own steps have made it.
VARIABLES
  x_pc, x_stdin, x_cpc, x_buf, x_iter, x_steps, x_ret, x_own, x_dict,
  x_sys_stdout, x_prev, x_overlap, x_builtins, x_mine

tableVars == <<x_builtins, x_mine>>
isoVars == <<x_pc, x_stdin, x_cpc, x_buf, x_iter, x_steps, x_ret, x_own, x_dict,
             x_sys_stdout, x_prev, x_overlap, tableVars>>

\* The script store (StoreSpec): the content of collections.json, the
\* collection directories and the body files on disk, the clock behind
\* datetime.now(), and per caller the call of ScriptRunner/CollectionManager
\* it is in (with its locals).  History: what the current call of each caller
\* did to the disk, the code last saved per script, the scripts deleted and
\* not saved since, whether two calls ever ran at the same time, the number
\* of calls begun.
VARIABLES
  collections_file, dirs, files, now, call,
  effects, saved, deleted, overlapped, ops

storeVars == <<collections_file, dirs, files, now, call,
               effects, saved, deleted, overlapped, ops>>

\* The Script Runner page (UISpec): the session's current script - the name
\* and collection it was loaded or last saved under, the name, collection and
\* code of the form - and where the Save handler is.  History: the name and
\* collection the handler has just moved the script from.
VARIABLES ui

uiVars == <<ui>>

\* The grammar corrector (GrammarSpec): one call of correct() - the text, the
\* settings of the constructor, where the call is, the attempt of the loop,
\* the response or the exception at hand, last_error, what
\* _execute_with_retry and correct have answered.  History: what each call of
\* the model gave, and every time.sleep.
VARIABLES gc

gcVars == <<gc>>
sideVars == <<uiVars, gcVars>>

\* the variables the single call of execute() of Spec does not touch
restVars == <<isoVars, storeVars, sideVars>>

parentVars == <<pc, start_time, execution_time, ret, timed_out, deadline>>
inputHist == <<events, input_vals, input_calls>>
histVars == <<bound_modules, refused, refs, main_result, main_calls, plain,
              inputHist>>
childVars == <<cpc, frame, stdout_capture, stderr_capture, input_iter, builtins,
               local_scope, exc, sigterm_ignored, exit_cause, steps, histVars>>
argVars == <<input_str, timeout>>
sandboxVars == <<argVars, parentVars, return_dict, clock, childVars, descendant>>
vars == <<sandboxVars, restVars>>

Calls == {1, 2}

\* ------------------------------------------------------ the script store
Callers == {1, 2}
CollectionNames == {"Uncategorized", "Security"}
\* script names, character by character: a, ../a, ../.. and b_
ScriptNames ==
  { <<"a">>, <<".", ".", "/", "a">>, <<".", ".", "/", ".", ".">>, <<"b", "_">> }
\* two texts utf-8 can encode and one it cannot (a lone surrogate)
Codes == {"c1", "c2", "surrogate"}
NoCode == "none"
\* f.write(code) of a file opened with encoding='utf-8'
Encodable(code) == code # "surrogate"

\* an exception that leaves the method
Raised(type) == [t |-> "raise", type |-> type]

PyBool(b) == [t |-> "bool", v |-> b]
NoData == [q \in {} |-> <<>>]
IdleCall ==
  [op |-> "none", pc |-> "idle", name |-> <<>>, code |-> NoCode,
   collection |-> "", data |-> NoData, filename |-> <<>>, created |-> 0,
   modified |-> 0, metadata |-> <<>>, value |-> [t |-> "NoneType"],
   \* history, noted when the call begins: whether the collection and the
   \* script were listed, the code last saved for the script, whether it had
   \* been deleted and not saved since
   known |-> FALSE, had |-> FALSE, expect |-> NoCode, gone |-> FALSE]

\* lines 289-292 (and 33-52): the store a new ScriptRunner finds or creates
StoreIdle ==
  /\ collections_file = [c \in {"Uncategorized"} |-> <<>>]
  /\ dirs = {".", "Uncategorized"}
  /\ files = [q \in {} |-> NoCode]
  /\ now = 1
  /\ call = [t \in Callers |-> IdleCall]
  /\ effects = [t \in Callers |-> {}]
  /\ saved = [k \in ScriptNames \X CollectionNames |-> NoCode]
  /\ deleted = {}
  /\ overlapped = FALSE
  /\ ops = 0

\* app.py lines 463-470: the session of a page opened on an empty store
UIIdle ==
  ui = [phase |-> "idle", original_name |-> <<>>, original_collection |-> "",
        script_name |-> <<>>, selected_collection |-> "Uncategorized",
        script_code |-> NoCode, moved_from |-> <<>>]

\* no GrammarCorrector has been made
GCIdle == gc = [pc |-> "none"]

\* no call of execute() under way
IsoIdle ==
  /\ x_pc = [r \in Calls |-> "idle"]
  /\ x_stdin = [r \in Calls |-> <<>>]
  /\ x_cpc = [r \in Calls |-> "none"]
  /\ x_buf = [r \in Calls |-> <<>>]
  /\ x_iter = [r \in Calls |-> <<>>]
  /\ x_steps = [r \in Calls |-> 0]
  /\ x_ret = [r \in Calls |-> [returned |-> FALSE]]
  /\ x_own = [r \in Calls |-> <<>>]
  /\ x_dict = [c \in Calls |-> [q \in {} |-> [t |-> "NoneType"]]]
  /\ x_sys_stdout = [q \in {0} \cup Calls |-> 0]
  /\ x_prev = [r \in Calls |-> 0]
  /\ x_overlap = FALSE
  /\ x_builtins = [q \in {0} \cup Calls |-> {}]
  /\ x_mine = [r \in Calls |-> {}]

NoRet == [returned |-> FALSE]
NoImport == [name |-> "", fromlist |-> {}]

Init ==
  /\ input_str \in StdinTexts
  /\ timeout \in Timeouts
  /\ pc = "accept"
  /\ start_time = 0
  /\ execution_time = 0
  /\ return_dict = EmptyDict
  /\ ret = NoRet
  /\ timed_out = FALSE
  /\ deadline = 0
  /\ clock = 0
  /\ cpc = "none"
  /\ frame = "top"
  /\ stdout_capture = <<>>
  /\ stderr_capture = <<>>
  /\ input_iter = <<>>
  /\ builtins = {}
  /\ local_scope = [n \in UserNames |-> "unbound"]
  /\ exc = NoExc
  /\ sigterm_ignored = FALSE
  /\ exit_cause = "none"
  /\ descendant = FALSE
  /\ steps = 0
  /\ bound_modules = {}
  /\ refused = NoImport
  /\ refs = {}
  /\ main_result = None
  /\ main_calls = 0
  /\ plain = TRUE
  /\ events = <<>>
  /\ input_vals = <<>>
  /\ input_calls = 0
  /\ IsoIdle
  /\ StoreIdle
  /\ UIIdle
  /\ GCIdle

ChildAlive == cpc \notin {"none", "exited"}

\* The process is gone and its memory with it; local_scope, the capture
\* buffers and the error keep their last contents as the record of what the
\* script did.
ProcessGone(cause) ==
  /\ cpc' = "exited"
  /\ exit_cause' = cause
  /\ frame' = "top"
  /\ input_iter' = <<>>
  /\ builtins' = {}
  /\ sigterm_ignored' = FALSE
  /\ steps' = 0

ProcessState == <<cpc, exit_cause, frame, input_iter, builtins,
                  sigterm_ignored, steps>>

\* ------------------------------------------------- execute(): results
\* the timeout record with the measured time in place of the timeout
TimeoutResultMeasured(d, T, et) ==
  [success |-> FALSE,
   stdout |-> Get(d, "stdout", <<>>),
   stderr |-> Get(d, "stderr", <<>>) \o <<"\n">> \o TimeoutMessage,
   result |-> None,
   execution_time |-> et,
   error |-> Str(TimeoutMessage)]

\* lines 257-264
TimeoutResult(d, T, et) ==
  [success |-> FALSE,
   stdout |-> Get(d, "stdout", <<>>),
   stderr |-> Get(d, "stderr", <<>>) \o <<"\n">> \o TimeoutMessage,
   result |-> None,
   execution_time |-> T,
   error |-> Str(TimeoutMessage)]

\* the failure record passing on whatever result the dict holds
FailureResultKeepsResult(d, et) ==
  [success |-> FALSE,
   stdout |-> Get(d, "stdout", <<>>),
   stderr |-> Get(d, "stderr", <<>>),
   result |-> Get(d, "result", None),
   execution_time |-> et,
   error |-> Get(d, "error", Str(<<"Unknown error">>))]

\* lines 267-274
FailureResult(d, et) ==
  [success |-> FALSE,
   stdout |-> Get(d, "stdout", <<>>),
   stderr |-> Get(d, "stderr", <<>>),
   result |-> None,
   execution_time |-> et,
   error |-> Get(d, "error", Str(<<"Unknown error">>))]

\* the child's dict handed back with the time added
SuccessResultFromDict(d, et) == Put(d, "execution_time", et)

\* lines 276-283
SuccessResult(d, et) ==
  [success |-> TRUE,
   stdout |-> Get(d, "stdout", <<>>),
   stderr |-> Get(d, "stderr", <<>>),
   result |-> Get(d, "result", None),
   execution_time |-> et,
   error |-> None]

\* ------------------------------------------------ execute(): the steps
\* line 196
Accept ==
  /\ pc = "accept"
  /\ start_time' = clock
  /\ pc' = "spawn"
  /\ UNCHANGED <<restVars, descendant, argVars, execution_time, return_dict, ret, timed_out, deadline,
                 clock, childVars>>

\* lines 198-250: the manager's dict, the process, p.start(), p.join(timeout) begins
Start ==
  /\ pc = "spawn"
  /\ return_dict' = EmptyDict
  /\ cpc' = "spawned"
  /\ deadline' = clock + timeout
  /\ pc' = "join"
  /\ UNCHANGED <<restVars, descendant, argVars, start_time, execution_time, ret, timed_out, clock,
                 frame, stdout_capture, stderr_capture, input_iter, builtins,
                 local_scope, exc, sigterm_ignored, exit_cause, steps,
                 histVars>>

\* a join that may return at any moment
JoinReturnsAtOnce ==
  /\ pc = "join"
  /\ execution_time' = clock - start_time
  /\ pc' = "check"
  /\ UNCHANGED <<restVars, descendant, argVars, start_time, return_dict, ret, timed_out, deadline,
                 clock, childVars>>

\* lines 250-252: join returns when the child has exited or the timeout has run out
JoinReturns ==
  /\ pc = "join"
  /\ cpc = "exited" \/ clock >= deadline
  /\ execution_time' = clock - start_time
  /\ pc' = "check"
  /\ UNCHANGED <<restVars, descendant, argVars, start_time, return_dict, ret, timed_out, deadline,
                 clock, childVars>>

\* line 254
CheckAlive ==
  /\ pc = "check"
  /\ timed_out' = ChildAlive
  /\ pc' = IF ChildAlive THEN "terminate" ELSE "collect"
  /\ UNCHANGED <<restVars, descendant, argVars, start_time, execution_time, return_dict, ret,
                 deadline, clock, childVars>>

\* line 255: p.terminate() sends SIGTERM, which the child may have set to be ignored
Terminate ==
  /\ pc = "terminate"
  /\ IF ChildAlive /\ ~sigterm_ignored
       THEN ProcessGone("sigterm")
       ELSE UNCHANGED ProcessState
  /\ pc' = "join_terminated"
  /\ UNCHANGED <<restVars, descendant, argVars, start_time, execution_time, return_dict, ret,
                 timed_out, deadline, clock, stdout_capture, stderr_capture,
                 local_scope, exc, histVars>>

\* lines 256-264: p.join() with no timeout, then the timeout record
ReturnTimeout ==
  /\ pc = "join_terminated"
  /\ cpc = "exited"
  /\ ret' = TimeoutResult(return_dict, timeout, execution_time)
  /\ pc' = "returned"
  /\ UNCHANGED <<restVars, descendant, argVars, start_time, execution_time, return_dict, timed_out,
                 deadline, clock, childVars>>

\* lines 266-274
ReturnFailure ==
  /\ pc = "collect"
  /\ ~Get(return_dict, "success", FALSE)
  /\ ret' = FailureResult(return_dict, execution_time)
  /\ pc' = "returned"
  /\ UNCHANGED <<restVars, descendant, argVars, start_time, execution_time, return_dict, timed_out,
                 deadline, clock, childVars>>

\* lines 266, 276-283
ReturnSuccess ==
  /\ pc = "collect"
  /\ Get(return_dict, "success", FALSE)
  /\ ret' = SuccessResult(return_dict, execution_time)
  /\ pc' = "returned"
  /\ UNCHANGED <<restVars, descendant, argVars, start_time, execution_time, return_dict, timed_out,
                 deadline, clock, childVars>>

\* time passes while execute() waits in p.join(timeout); the clock stops at
\* MaxClock, which no deadline exceeds
Tick ==
  /\ pc = "join"
  /\ clock < MaxClock
  /\ clock' = clock + 1
  /\ UNCHANGED <<restVars, descendant, argVars, parentVars, return_dict, childVars>>

\* the operating system kills the child (out of memory, SIGKILL)
OSKill ==
  /\ ChildAlive
  /\ ProcessGone("killed")
  /\ UNCHANGED <<restVars, descendant, argVars, parentVars, return_dict, clock, stdout_capture,
                 stderr_capture, local_scope, exc, histVars>>

\* ------------------------------------------------ _worker_process
\* lines 141-157: the capture buffers, the input iterator, the input primitive
worker_setup ==
  /\ cpc = "spawned"
  /\ stdout_capture' = <<>>
  /\ stderr_capture' = <<>>
  /\ input_iter' = SplitLines(input_str)
  /\ builtins' = AllowedBuiltins \cup {"input"}
  /\ local_scope' = [n \in UserNames |-> "unbound"]
  /\ frame' = "top"
  /\ cpc' = "run"
  /\ UNCHANGED <<restVars, descendant, argVars, parentVars, return_dict, clock, exc, sigterm_ignored,
                 exit_cause, steps, histVars>>

\* exec(code, safe_globals, local_scope): top-level code looks a name up in
\* local_scope, then in safe_globals (which holds only __builtins__), then in
\* the built-ins table; the body of a function, whose globals are
\* safe_globals, skips local_scope.
BindingOf(n) ==
  IF frame = "top" /\ n \in UserNames /\ local_scope[n] # "unbound"
    THEN local_scope[n]
    ELSE IF n \in builtins THEN "builtin" ELSE "unbound"

\* what the module namespace of ordinary Python would hold for n
ModuleBindingOf(n) ==
  IF n \in UserNames /\ local_scope[n] # "unbound" THEN local_scope[n]
  ELSE IF n \in builtins THEN "builtin" ELSE "unbound"

Running == cpc = "run" /\ steps < MaxSteps

\* An error leaves exec(): line 178 catches it when it is an Exception; any
\* other BaseException leaves _worker_process with nothing written.
Raise(e) ==
  /\ exc' = e
  /\ cpc' = IF e.is_exception THEN "w179" ELSE "uncaught"

NoRaise == UNCHANGED <<cpc, exc>>

\* print(t)
ExecPrint(t) ==
  /\ Running
  /\ steps' = steps + 1
  /\ IF BindingOf("print") = "unbound"
       THEN Raise(NameErrorOf("print")) /\ UNCHANGED stdout_capture
       ELSE NoRaise /\ stdout_capture' = stdout_capture \o <<t, "\n">>
  /\ events' = Append(events, [kind |-> "print", text |-> t])
  /\ UNCHANGED <<restVars, descendant, argVars, parentVars, return_dict, clock, frame, stderr_capture,
                 input_iter, builtins, local_scope, sigterm_ignored,
                 exit_cause, bound_modules, refused, refs, main_result,
                 main_calls, plain, input_vals, input_calls>>

\* lines 146-155: input(prompt)
mock_input(prompt) ==
  LET shown == IF prompt # "" THEN stdout_capture \o <<prompt>> ELSE stdout_capture IN
  IF input_iter # <<>>
    THEN /\ stdout_capture' = shown \o Head(input_iter) \o <<"\n">>
         /\ input_iter' = Tail(input_iter)
         /\ input_vals' = Append(input_vals, Head(input_iter))
         /\ NoRaise
    ELSE /\ stdout_capture' = shown
         /\ UNCHANGED <<input_iter, input_vals>>
         /\ Raise(Exc("EOFError", <<"EOF when reading a line">>, TRUE))

ExecInput(prompt) ==
  /\ Running
  /\ steps' = steps + 1
  /\ IF BindingOf("input") = "unbound"
       THEN /\ Raise(NameErrorOf("input"))
            /\ UNCHANGED <<stdout_capture, input_iter, inputHist>>
       ELSE /\ mock_input(prompt)
            /\ events' = Append(events, [kind |-> "input", text |-> prompt])
            /\ input_calls' = input_calls + 1
  /\ plain' = (plain /\ input_iter # <<>>)
  /\ UNCHANGED <<restVars, descendant, argVars, parentVars, return_dict, clock, frame, stderr_capture,
                 builtins, local_scope, sigterm_ignored, exit_cause,
                 bound_modules, refused, refs, main_result, main_calls>>

\* lines 22-27: the import statement calls __builtins__['__import__']
safe_import(name, fromlist) ==
  IF safe_import_denies(name, fromlist)
    THEN /\ Raise(Exc("ImportError", ImportErrorMessage(name), TRUE))
         /\ refused' = [name |-> name, fromlist |-> fromlist]
         /\ UNCHANGED bound_modules
    ELSE /\ NoRaise
         /\ bound_modules' = bound_modules \cup ImportBinds(name, fromlist)
         /\ UNCHANGED refused

ExecImport(f) ==
  /\ Running
  /\ steps' = steps + 1
  /\ IF BindingOf("__import__") = "unbound"
       THEN /\ Raise(Exc("ImportError", <<"__import__ not found">>, TRUE))
            /\ UNCHANGED <<bound_modules, refused>>
       ELSE safe_import(f.name, f.fromlist)
  /\ plain' = (plain /\ f.name \notin blocked_modules
                     /\ f.fromlist \cap blocked_modules = {})
  /\ UNCHANGED <<restVars, descendant, argVars, parentVars, return_dict, clock, frame, stdout_capture,
                 stderr_capture, input_iter, builtins, local_scope,
                 sigterm_ignored, exit_cause, refs, main_result, main_calls,
                 inputHist>>

\* an expression that reads the name n
ExecRef(n) ==
  /\ Running
  /\ steps' = steps + 1
  /\ IF BindingOf(n) = "unbound" THEN Raise(NameErrorOf(n)) ELSE NoRaise
  /\ refs' = refs \cup {n}
  /\ plain' = (plain /\ ModuleBindingOf(n) # "unbound")
  /\ UNCHANGED <<restVars, descendant, argVars, parentVars, return_dict, clock, frame, stdout_capture,
                 stderr_capture, input_iter, builtins, local_scope,
                 sigterm_ignored, exit_cause, bound_modules, refused,
                 main_result, main_calls, inputHist>>

\* def f(): ... at the top level binds f in local_scope
ExecDef(f) ==
  /\ Running
  /\ frame = "top"
  /\ steps' = steps + 1
  /\ local_scope' = [local_scope EXCEPT ![f] = "function"]
  /\ UNCHANGED <<restVars, descendant, argVars, parentVars, return_dict, clock, cpc, frame,
                 stdout_capture, stderr_capture, input_iter, builtins, exc,
                 sigterm_ignored, exit_cause, histVars>>

\* v = <a value that is not callable> at the top level
ExecAssign(v) ==
  /\ Running
  /\ frame = "top"
  /\ steps' = steps + 1
  /\ local_scope' = [local_scope EXCEPT ![v] = "value"]
  /\ UNCHANGED <<restVars, descendant, argVars, parentVars, return_dict, clock, cpc, frame,
                 stdout_capture, stderr_capture, input_iter, builtins, exc,
                 sigterm_ignored, exit_cause, histVars>>

\* f(): the call enters the body of f when the name resolves to a function.
\* The scripts do not recurse: the top-level code calls main and helper, and
\* main calls helper.
ExecCall(f) ==
  /\ Running
  /\ frame = "top" \/ (frame \in {"main", "entry"} /\ f = "helper")
  /\ steps' = steps + 1
  /\ CASE BindingOf(f) = "function" -> NoRaise /\ frame' = f
       [] BindingOf(f) = "unbound" -> Raise(NameErrorOf(f)) /\ UNCHANGED frame
       [] OTHER -> Raise(Exc("TypeError", <<"object is not callable">>, TRUE))
                   /\ UNCHANGED frame
  /\ plain' = (plain /\ ModuleBindingOf(f) = "function")
  /\ UNCHANGED <<restVars, descendant, argVars, parentVars, return_dict, clock, stdout_capture,
                 stderr_capture, input_iter, builtins, local_scope,
                 sigterm_ignored, exit_cause, bound_modules, refused, refs,
                 main_result, main_calls, inputHist>>

\* raise e
ExecRaise(e) ==
  /\ Running
  /\ steps' = steps + 1
  /\ Raise(e)
  /\ plain' = FALSE
  /\ UNCHANGED <<restVars, descendant, argVars, parentVars, return_dict, clock, frame, stdout_capture,
                 stderr_capture, input_iter, builtins, local_scope,
                 sigterm_ignored, exit_cause, bound_modules, refused, refs,
                 main_result, main_calls, inputHist>>

\* while True: pass
ExecLoop ==
  /\ Running
  /\ steps' = steps + 1
  /\ cpc' = "loop"
  /\ UNCHANGED <<restVars, descendant, argVars, parentVars, return_dict, clock, frame, stdout_capture,
                 stderr_capture, input_iter, builtins, local_scope, exc,
                 sigterm_ignored, exit_cause, histVars>>

\* os.fork() and exec of a program in the new process, with the os package
\* that import os.path has bound
ExecSpawn ==
  /\ Running
  /\ ModuleObject("os") \in bound_modules
  /\ ~descendant
  /\ steps' = steps + 1
  /\ descendant' = TRUE
  /\ UNCHANGED <<restVars, argVars, parentVars, return_dict, clock, cpc, frame,
                 stdout_capture, stderr_capture, input_iter, builtins,
                 local_scope, exc, sigterm_ignored, exit_cause, histVars>>

\* the process the script started ends by itself
DescendantExit ==
  /\ descendant
  /\ descendant' = FALSE
  /\ UNCHANGED <<restVars, argVars, parentVars, return_dict, clock, childVars>>

\* import warnings; warnings.warn(t): text on sys.stderr
ExecWarn(t) ==
  /\ Running
  /\ steps' = steps + 1
  /\ stderr_capture' = stderr_capture \o <<t, "\n">>
  /\ UNCHANGED <<restVars, descendant, argVars, parentVars, return_dict, clock, cpc, frame,
                 stdout_capture, input_iter, builtins, local_scope, exc,
                 sigterm_ignored, exit_cause, histVars>>

\* import signal; signal.signal(signal.SIGTERM, signal.SIG_IGN)
ExecIgnoreSigterm ==
  /\ Running
  /\ ~sigterm_ignored
  /\ steps' = steps + 1
  /\ sigterm_ignored' = TRUE
  /\ UNCHANGED <<restVars, descendant, argVars, parentVars, return_dict, clock, cpc, frame,
                 stdout_capture, stderr_capture, input_iter, builtins,
                 local_scope, exc, exit_cause, histVars>>

ReturnValues == {None, IntVal(42)}

\* return v: back in the top-level code, or (line 170) main's value into the dict
ExecReturn(v) ==
  /\ cpc = "run"
  /\ frame # "top"
  /\ IF frame = "entry"
       THEN /\ return_dict' = Put(return_dict, "result", v)
            /\ main_result' = v
            /\ cpc' = "w174"
            /\ UNCHANGED frame
       ELSE /\ frame' = "top"
            /\ UNCHANGED <<cpc, return_dict, main_result>>
  /\ UNCHANGED <<restVars, descendant, argVars, parentVars, clock, stdout_capture, stderr_capture,
                 input_iter, builtins, local_scope, exc, sigterm_ignored,
                 exit_cause, steps, bound_modules, refused, refs, main_calls,
                 plain, inputHist>>

\* lines 168-172: the top-level code is done; main is called when it is callable
EndOfScript ==
  /\ cpc = "run"
  /\ frame = "top"
  /\ IF local_scope["main"] = "function"
       THEN /\ frame' = "entry"
            /\ main_calls' = main_calls + 1
            /\ UNCHANGED <<cpc, return_dict>>
       ELSE /\ return_dict' = Put(return_dict, "result", None)
            /\ cpc' = "w174"
            /\ UNCHANGED <<frame, main_calls>>
  /\ UNCHANGED <<restVars, descendant, argVars, parentVars, clock, stdout_capture, stderr_capture,
                 input_iter, builtins, local_scope, exc, sigterm_ignored,
                 exit_cause, steps, bound_modules, refused, refs, main_result,
                 plain, inputHist>>

\* one assignment to the manager's dict, and the line that follows
WriteStep(at, key, value, next) ==
  /\ cpc = at
  /\ return_dict' = Put(return_dict, key, value)
  /\ cpc' = next
  /\ UNCHANGED <<restVars, descendant, argVars, parentVars, clock, frame, stdout_capture,
                 stderr_capture, input_iter, builtins, local_scope, exc,
                 sigterm_ignored, exit_cause, steps, histVars>>

\* lines 174-176
WriteSuccessTrue == WriteStep("w174", "success", TRUE, "w175")
WriteStdout == WriteStep("w175", "stdout", stdout_capture, "w176")
WriteStderr == WriteStep("w176", "stderr", stderr_capture, "end")

\* lines 179-186
WriteSuccessFalse == WriteStep("w179", "success", FALSE, "w180")
WriteError == WriteStep("w180", "error", Str(exc.msg), "w181")
WriteStdoutOfErrorEmpty == WriteStep("w181", "stdout", <<>>, "w186")
WriteStdoutOfError == WriteStep("w181", "stdout", stdout_capture, "w186")
WriteStderrOfError ==
  WriteStep("w186", "stderr", stderr_capture \o Traceback(exc), "end")

\* the worker function returns and the process exits
ChildExit ==
  /\ cpc = "end"
  /\ ProcessGone("normal")
  /\ UNCHANGED <<restVars, descendant, argVars, parentVars, return_dict, clock, stdout_capture,
                 stderr_capture, local_scope, exc, histVars>>

\* the error nothing caught ends the process: exit code 1, nothing in the dict
ChildCrash ==
  /\ cpc = "uncaught"
  /\ ProcessGone("uncaught")
  /\ UNCHANGED <<restVars, descendant, argVars, parentVars, return_dict, clock, stdout_capture,
                 stderr_capture, local_scope, exc, histVars>>

\* ------------------------------------------------------- specification
Statement ==
  \/ \E t \in PrintTexts : ExecPrint(t)
  \/ \E p \in Prompts : ExecInput(p)
  \/ \E f \in ImportForms : ExecImport(f)
  \/ \E n \in RefNames : ExecRef(n)
  \/ \E f \in CallNames : ExecDef(f)
  \/ \E v \in {"main"} : ExecAssign(v)
  \/ \E f \in CallNames : ExecCall(f)
  \/ \E e \in RaisedErrors : ExecRaise(e)
  \/ ExecLoop
  \/ \E t \in {"w"} : ExecWarn(t)
  \/ ExecIgnoreSigterm
  \/ ExecSpawn
  \/ \E v \in ReturnValues : ExecReturn(v)
  \/ EndOfScript

Child ==
  \/ worker_setup
  \/ Statement
  \/ WriteSuccessTrue \/ WriteStdout \/ WriteStderr
  \/ WriteSuccessFalse \/ WriteError \/ WriteStdoutOfError \/ WriteStderrOfError
  \/ ChildExit
  \/ ChildCrash

Parent ==
  \/ Accept \/ Start \/ JoinReturns \/ CheckAlive \/ Terminate
  \/ ReturnTimeout \/ ReturnFailure \/ ReturnSuccess

Next == Parent \/ Child \/ Tick \/ OSKill \/ DescendantExit

Spec == Init /\ [][Next]_vars
\* --------------------------------------------------------------- claims
Returned == pc = "returned"

\* the child ran to the end of _worker_process and execute() collected its report
CompletedRun == Returned /\ ~timed_out /\ exit_cause = "normal"

C2_ExecuteReturns == Returned \/ ENABLED (Parent \/ Child \/ Tick)

C4_NoDeniedModuleBound ==
  \A b \in bound_modules :
    ~(b.attr = "" /\ b.module \in
        {"os", "sys", "subprocess", "shutil", "builtins", "pathlib", "importlib"})

\* C5: a script that imports socket gets success=False and an error naming
\* the denied import.
C5_SocketDenied ==
  (CompletedRun /\ (ModuleObject("socket") \in bound_modules \/ refused.name = "socket")) =>
    /\ ret.success = FALSE
    /\ ret.error = Str(<<"Import of '", "socket",
                         "' is not allowed for security reasons">>)

\* the built-ins table of lines 203-241, name by name, and the input primitive
EnumeratedNamespace ==
  {"print", "len", "range", "str", "int", "float", "list", "dict", "set",
   "tuple", "bool", "True", "False", "None", "abs", "all", "any",
   "enumerate", "filter", "isinstance", "map", "max", "min", "round",
   "sorted", "sum", "zip", "__import__", "Exception", "ValueError",
   "TypeError", "IndexError", "KeyError", "AttributeError", "NameError",
   "ImportError", "RuntimeError", "input"}

C7_PlainScriptSucceeds ==
  (CompletedRun /\ plain) => (ret.success = TRUE /\ ret.stdout = stdout_capture)

\* C8: result is the value main() returned when the execution succeeded and
\* the top-level code left a callable main (called exactly once); in every
\* other outcome result is None.
C8_ResultOnlyFromMain ==
  Returned =>
    LET hasMain == local_scope["main"] = "function" IN
    /\ (ret.success /\ hasMain) => (ret.result = main_result /\ main_calls = 1)
    /\ ~(ret.success /\ hasMain) => ret.result = None
    /\ (ret.success /\ ~hasMain) => main_calls = 0

\* main returned 42 and the execution succeeded
C8_Witness ==
  /\ CompletedRun /\ ret.success /\ ret.result = IntVal(42) /\ main_calls = 1

\* C9: every returned result has success=True and error None, or
\* success=False and a non-empty error message.
C9_ErrorIffFailure ==
  Returned =>
    \/ ret.success = TRUE /\ ret.error = None
    \/ ret.success = FALSE /\ ret.error # None /\ ret.error # Str(<<>>)

\* C10: an error raised by the top-level code or by main is caught in the
\* child, which exits normally having reported it; execute() returns
\* success=False, the error's message, the stdout captured up to the error
\* and the captured stderr followed by the trace.
C10_ErrorCaughtInChild ==
  (Returned /\ ~timed_out /\ exc # NoExc /\ exit_cause # "killed") =>
    /\ exit_cause = "normal"
    /\ ret.success = FALSE
    /\ ret.error = Str(exc.msg)
    /\ ret.stdout = stdout_capture
    /\ ret.stderr = stderr_capture \o Traceback(exc)

\* the child is gone and never wrote its success flag: the operating system
\* killed it, or an error that line 178 does not catch ended it
VanishedRun ==
  /\ Returned /\ ~timed_out
  /\ exit_cause \in {"killed", "uncaught"}
  /\ "success" \notin DOMAIN return_dict

\* C11: when the child exits without having written a result, execute()
\* returns success=False, the error "execution failed without producing a
\* result", and as stdout and stderr what the channel had received.
C11_VanishedChildReported ==
  VanishedRun =>
    /\ ret.success = FALSE
    /\ ret.error = Str(<<"execution failed without producing a result">>)
    /\ ret.stdout = Get(return_dict, "stdout", <<>>)
    /\ ret.stderr = Get(return_dict, "stderr", <<>>)

\* the keys of the record execute() returns
ResultKeys == {"success", "stdout", "stderr", "result", "execution_time", "error"}

\* C12: on every path execute() returns a record with exactly the keys
\* success, stdout, stderr, result, execution_time and error, where success is
\* a boolean, stdout and stderr are strings, error is None or a string and
\* execution_time a number; and no state of a call ends it in any other way
\* than by returning such a record.
C12_SameShapeOnEveryPath ==
  /\ pc \in {"accept", "spawn", "join", "check", "terminate", "join_terminated",
             "collect", "returned"}
  /\ (pc # "returned") => ret = NoRet
  /\ Returned =>
       /\ DOMAIN ret = ResultKeys
       /\ ret.success \in BOOLEAN
       /\ ret.stdout \in Seq(STRING) /\ ret.stderr \in Seq(STRING)
       /\ ret.execution_time \in 0..(MaxClock + MaxTimeout)
       /\ ret.error = None \/ (ret.error.t = "str" /\ ret.error.s \in Seq(STRING))

\* the child vanished (killed with nothing written) and execute() still
\* returned the full record
C12_Witness ==
  /\ Returned /\ exit_cause = "killed" /\ return_dict = EmptyDict
  /\ DOMAIN ret = ResultKeys
  /\ ret.success = FALSE

\* the lines of a text delimited by "\n": the k-th line is what stands between
\* the (k-1)-th and the k-th newline; a text that does not end in a newline
\* has a last line without one
NewlinesOf(s) == {i \in 1..Len(s) : s[i] = "\n"}
NumLines(s) ==
  Cardinality(NewlinesOf(s)) + (IF s # <<>> /\ s[Len(s)] # "\n" THEN 1 ELSE 0)
LineOf(s, k) ==
  LET before == {i \in NewlinesOf(s) : Cardinality({j \in NewlinesOf(s) : j <= i}) = k - 1}
      at == {i \in NewlinesOf(s) : Cardinality({j \in NewlinesOf(s) : j <= i}) = k}
      first == IF before = {} THEN 1 ELSE (CHOOSE i \in before : TRUE) + 1
      last == IF at = {} THEN Len(s) ELSE (CHOOSE i \in at : TRUE) - 1
  IN SubSeq(s, first, last)

\* what a terminal shows for the calls ev of print and input, the k-th call of
\* input being the next: a print shows its text and a newline; an input shows
\* its prompt (if any) with no newline, then the line it consumes and a newline
RECURSIVE TerminalEcho(_, _, _)
TerminalEcho(ev, s, k) ==
  IF ev = <<>> THEN <<>>
  ELSE LET e == Head(ev) IN
       IF e.kind = "print"
         THEN <<e.text, "\n">> \o TerminalEcho(Tail(ev), s, k)
         ELSE (IF e.text # "" THEN <<e.text>> ELSE <<>>)
              \o (IF k <= NumLines(s) THEN LineOf(s, k) \o <<"\n">> ELSE <<>>)
              \o TerminalEcho(Tail(ev), s, k + 1)

\* C14: the k-th call of input() returns the k-th line of the stdin text, and
\* captured stdout is, in program order, each print's text and each input's
\* prompt (without newline) followed by the consumed line and a newline; a
\* completed run returns exactly that as stdout.
C14_InputEcho ==
  /\ \A k \in 1..Len(input_vals) : input_vals[k] = LineOf(input_str, k)
  /\ stdout_capture = TerminalEcho(events, input_str, 1)
  /\ CompletedRun => ret.stdout = TerminalEcho(events, input_str, 1)

\* C15: a call of input() beyond the last line of the stdin text raises
\* EOFError("EOF when reading a line") and returns nothing, the lines consumed
\* before stay consumed, and the run is reported as failed with that error.
C15_EOFOnOverRead ==
  LET n == NumLines(input_str) IN
  /\ Len(input_vals) = (IF input_calls <= n THEN input_calls ELSE n)
  /\ input_calls > n =>
       /\ exc = Exc("EOFError", <<"EOF when reading a line">>, TRUE)
       /\ input_calls = n + 1
       /\ cpc \notin {"run", "loop"}
       /\ \A k \in 1..n : input_vals[k] = LineOf(input_str, k)
  /\ (CompletedRun /\ input_calls > n) =>
       /\ ret.success = FALSE
       /\ ret.error = Str(<<"EOF when reading a line">>)

\* ------------------------------------------- two calls of execute()
\* IsoSpec runs two calls of execute() in any interleaving, one after the
\* other included.  It leaves the clock out (the deadline of a call may pass
\* at any moment) and takes the writes of one report together; what it keeps
\* is which process, which redirection, which buffer and which dict every
\* step of a call works on.

MaxIsoSteps == 2     \* statements the script of one call executes

\* the call of Spec at rest
SandboxIdle ==
  /\ input_str = <<>> /\ timeout = 1 /\ pc = "accept"
  /\ start_time = 0 /\ execution_time = 0 /\ return_dict = EmptyDict
  /\ ret = NoRet /\ timed_out = FALSE /\ deadline = 0 /\ clock = 0
  /\ cpc = "none" /\ frame = "top"
  /\ stdout_capture = <<>> /\ stderr_capture = <<>>
  /\ input_iter = <<>> /\ builtins = {}
  /\ local_scope = [n \in UserNames |-> "unbound"]
  /\ exc = NoExc /\ sigterm_ignored = FALSE /\ exit_cause = "none" /\ steps = 0
  /\ bound_modules = {} /\ refused = NoImport /\ refs = {}
  /\ main_result = None /\ main_calls = 0 /\ plain = TRUE
  /\ events = <<>> /\ input_vals = <<>> /\ input_calls = 0
  /\ descendant = FALSE

\* one process shared by all calls (threads of the caller) in place of a
\* process per call
ProcessOfShared(r) == 0

\* lines 244-249: every call starts a process of its own (0 is the caller's)
ProcessOf(r) == r

\* lines 198-199: every call creates a manager and a dict of its own
ChannelOf(r) == r

\* one table of built-ins made once and handed to every call
BuiltinsOfShared(r) == 0

\* lines 202-247: every call builds safe_globals, and the table of built-ins
\* in it, anew and hands it to its own child
BuiltinsOf(r) == r

\* names a script takes out of or puts into its __builtins__
MutatedNames == {"len", "open"}

IsoStdinTexts == { <<"x", "\n">>, <<"y", "\n">> }
EOFErrorRaised == Exc("EOFError", <<"EOF when reading a line">>, TRUE)

\* lines 196-250: the call begins: the dict, the process, p.start(), p.join(timeout)
XStart(r) ==
  /\ x_pc[r] = "idle"
  /\ \E s \in IsoStdinTexts : x_stdin' = [x_stdin EXCEPT ![r] = s]
  /\ x_dict' = [x_dict EXCEPT ![ChannelOf(r)] = EmptyDict]
  /\ x_cpc' = [x_cpc EXCEPT ![r] = "spawned"]
  /\ x_pc' = [x_pc EXCEPT ![r] = "join"]
  /\ x_overlap' = (x_overlap \/ \E o \in Calls \ {r} : x_pc[o] = "join")
  /\ x_builtins' = [x_builtins EXCEPT ![BuiltinsOf(r)] = AllowedBuiltins]
  /\ x_mine' = [x_mine EXCEPT ![r] = AllowedBuiltins]
  /\ UNCHANGED <<x_buf, x_iter, x_steps, x_ret, x_own, x_sys_stdout, x_prev>>
  /\ UNCHANGED <<sandboxVars, storeVars, sideVars>>

\* lines 141-164: the child's buffer and iterator (locals of the worker), and
\* redirect_stdout, which puts the process's sys.stdout aside and installs
\* the buffer in its place
XSetup(r) ==
  /\ x_cpc[r] = "spawned"
  /\ x_buf' = [x_buf EXCEPT ![r] = <<>>]
  /\ x_iter' = [x_iter EXCEPT ![r] = SplitLines(x_stdin[r])]
  /\ x_prev' = [x_prev EXCEPT ![r] = x_sys_stdout[ProcessOf(r)]]
  /\ x_sys_stdout' = [x_sys_stdout EXCEPT ![ProcessOf(r)] = r]
  /\ x_builtins' = [x_builtins EXCEPT ![BuiltinsOf(r)] = @ \cup {"input"}]
  /\ x_mine' = [x_mine EXCEPT ![r] = @ \cup {"input"}]
  /\ x_cpc' = [x_cpc EXCEPT ![r] = "run"]
  /\ UNCHANGED <<x_pc, x_stdin, x_steps, x_ret, x_own, x_dict, x_overlap>>
  /\ UNCHANGED <<sandboxVars, storeVars, sideVars>>

\* print(t) writes to whatever is installed as sys.stdout of the process the
\* statement runs in (0: the real stdout, nothing captured)
XPrint(r, t) ==
  /\ x_cpc[r] = "run" /\ x_steps[r] < MaxIsoSteps
  /\ x_steps' = [x_steps EXCEPT ![r] = @ + 1]
  /\ LET target == x_sys_stdout[ProcessOf(r)] IN
       x_buf' = IF target = 0 THEN x_buf
                ELSE [x_buf EXCEPT ![target] = @ \o <<t, "\n">>]
  /\ x_own' = [x_own EXCEPT ![r] = @ \o <<t, "\n">>]
  /\ UNCHANGED <<x_pc, x_stdin, x_cpc, x_iter, x_ret, x_dict, x_sys_stdout,
                 x_prev, x_overlap>>
  /\ UNCHANGED <<sandboxVars, storeVars, sideVars, tableVars>>

\* del __builtins__[n] / __builtins__[n] = ...: the script changes the table
\* exec() was given
XMutate(r, n) ==
  /\ x_cpc[r] = "run" /\ x_steps[r] < MaxIsoSteps
  /\ x_steps' = [x_steps EXCEPT ![r] = @ + 1]
  /\ x_builtins' = [x_builtins EXCEPT ![BuiltinsOf(r)] =
                      IF n \in @ THEN @ \ {n} ELSE @ \cup {n}]
  /\ x_mine' = [x_mine EXCEPT ![r] = IF n \in @ THEN @ \ {n} ELSE @ \cup {n}]
  /\ UNCHANGED <<x_pc, x_stdin, x_cpc, x_buf, x_iter, x_ret, x_own, x_dict,
                 x_sys_stdout, x_prev, x_overlap>>
  /\ UNCHANGED <<sandboxVars, storeVars, sideVars>>

\* lines 146-155: input() echoes with print(val, file=stdout_capture), the
\* buffer of its own call
XInput(r) ==
  /\ x_cpc[r] = "run" /\ x_steps[r] < MaxIsoSteps
  /\ x_steps' = [x_steps EXCEPT ![r] = @ + 1]
  /\ IF x_iter[r] # <<>>
       THEN /\ x_buf' = [x_buf EXCEPT ![r] = @ \o Head(x_iter[r]) \o <<"\n">>]
            /\ x_own' = [x_own EXCEPT ![r] = @ \o Head(x_iter[r]) \o <<"\n">>]
            /\ x_iter' = [x_iter EXCEPT ![r] = Tail(@)]
            /\ UNCHANGED x_cpc
       ELSE /\ x_cpc' = [x_cpc EXCEPT ![r] = "failed"]
            /\ UNCHANGED <<x_buf, x_own, x_iter>>
  /\ UNCHANGED <<x_pc, x_stdin, x_ret, x_dict, x_sys_stdout, x_prev, x_overlap>>
  /\ UNCHANGED <<sandboxVars, storeVars, sideVars, tableVars>>

\* lines 164-176: the with block ends (sys.stdout is put back) and the report
\* of a script that ran to its end goes into the call's dict
XReport(r) ==
  /\ x_cpc[r] = "run"
  /\ x_sys_stdout' = [x_sys_stdout EXCEPT ![ProcessOf(r)] = x_prev[r]]
  /\ x_dict' = [x_dict EXCEPT ![ChannelOf(r)] =
                  Put(Put(Put(Put(@, "result", None), "success", TRUE),
                          "stdout", x_buf[r]), "stderr", <<>>)]
  /\ x_cpc' = [x_cpc EXCEPT ![r] = "end"]
  /\ UNCHANGED <<x_pc, x_stdin, x_buf, x_iter, x_steps, x_ret, x_own, x_prev,
                 x_overlap>>
  /\ UNCHANGED <<sandboxVars, storeVars, sideVars, tableVars>>

\* lines 178-186: the report of a script that an error ended
XReportError(r) ==
  /\ x_cpc[r] = "failed"
  /\ x_sys_stdout' = [x_sys_stdout EXCEPT ![ProcessOf(r)] = x_prev[r]]
  /\ x_dict' = [x_dict EXCEPT ![ChannelOf(r)] =
                  Put(Put(Put(Put(@, "success", FALSE),
                              "error", Str(EOFErrorRaised.msg)),
                          "stdout", x_buf[r]),
                      "stderr", Traceback(EOFErrorRaised))]
  /\ x_cpc' = [x_cpc EXCEPT ![r] = "end"]
  /\ UNCHANGED <<x_pc, x_stdin, x_buf, x_iter, x_steps, x_ret, x_own, x_prev,
                 x_overlap>>
  /\ UNCHANGED <<sandboxVars, storeVars, sideVars, tableVars>>

\* the worker returns and the process exits
XExit(r) ==
  /\ x_cpc[r] = "end"
  /\ x_cpc' = [x_cpc EXCEPT ![r] = "exited"]
  /\ UNCHANGED <<x_pc, x_stdin, x_buf, x_iter, x_steps, x_ret, x_own, x_dict,
                 x_sys_stdout, x_prev, x_overlap>>
  /\ UNCHANGED <<sandboxVars, storeVars, sideVars, tableVars>>

\* lines 250-283: the child has exited; the record is built from the call's dict
XCollect(r) ==
  /\ x_pc[r] = "join" /\ x_cpc[r] = "exited"
  /\ LET d == x_dict[ChannelOf(r)] IN
       x_ret' = [x_ret EXCEPT ![r] =
                   IF Get(d, "success", FALSE) THEN SuccessResult(d, 0)
                   ELSE FailureResult(d, 0)]
  /\ x_pc' = [x_pc EXCEPT ![r] = "returned"]
  /\ UNCHANGED <<x_stdin, x_cpc, x_buf, x_iter, x_steps, x_own, x_dict,
                 x_sys_stdout, x_prev, x_overlap>>
  /\ UNCHANGED <<sandboxVars, storeVars, sideVars, tableVars>>

\* lines 250-264: the deadline passes with the child alive; it is terminated
\* and the timeout record is built from the call's dict
XTimeout(r) ==
  /\ x_pc[r] = "join" /\ x_cpc[r] \in {"spawned", "run", "failed", "end"}
  /\ x_cpc' = [x_cpc EXCEPT ![r] = "exited"]
  /\ x_ret' = [x_ret EXCEPT ![r] = TimeoutResult(x_dict[ChannelOf(r)], 1, 1)]
  /\ x_pc' = [x_pc EXCEPT ![r] = "returned"]
  /\ UNCHANGED <<x_stdin, x_buf, x_iter, x_steps, x_own, x_dict, x_sys_stdout,
                 x_prev, x_overlap>>
  /\ UNCHANGED <<sandboxVars, storeVars, sideVars, tableVars>>

IsoInit == SandboxIdle /\ IsoIdle /\ StoreIdle /\ UIIdle /\ GCIdle

IsoNext ==
  \E r \in Calls :
    \/ XStart(r)
    \/ XSetup(r)
    \/ \E t \in PrintTexts : XPrint(r, t)
    \/ \E n \in MutatedNames : XMutate(r, n)
    \/ XInput(r)
    \/ XReport(r)
    \/ XReportError(r)
    \/ XExit(r)
    \/ XCollect(r)
    \/ XTimeout(r)

IsoSpec == IsoInit /\ [][IsoNext]_vars

\* C13: for two calls of execute(), one after the other or at the same time,
\* with the same or different stdin and statements, the stdout, stderr,
\* result and error each call returns hold only what its own child produced:
\* stdout is the text the call's own statements wrote (or empty when the
\* child never reported), stderr is the trace of the call's own error and the
\* supervisor's timeout note, result is None, error is the call's own error,
\* the timeout message or the default; and no buffer ever holds another
\* call's text.
C13_NoCrossRequestLeak ==
  \A r \in Calls :
    /\ x_buf[r] = x_own[r]
    /\ x_pc[r] = "returned" =>
         /\ x_ret[r].stdout \in {<<>>, x_own[r]}
         /\ x_ret[r].success => (x_ret[r].stdout = x_own[r] /\ x_ret[r].stderr = <<>>
                                  /\ x_cpc[r] = "exited" /\ x_iter[r] \in
                                       {SplitLines(x_stdin[r]), Tail(SplitLines(x_stdin[r]))})
         /\ x_ret[r].stderr \in
              {<<>>, Traceback(EOFErrorRaised), <<"\n", "Timeout exceeded">>,
               Traceback(EOFErrorRaised) \o <<"\n", "Timeout exceeded">>}
         /\ x_ret[r].stderr # <<>> => ~x_ret[r].success
         /\ x_ret[r].result = None
         /\ x_ret[r].error \in
              {None, Str(<<"EOF when reading a line">>), Str(<<"Timeout exceeded">>),
               Str(<<"Unknown error">>)}
         /\ x_ret[r].error = Str(<<"EOF when reading a line">>) =>
              (x_steps[r] > Len(SplitLines(x_stdin[r])) /\ x_ret[r].stdout = x_own[r])

\* two calls ran at the same time on different stdin texts and both returned
\* their own output
C13_Witness ==
  /\ x_overlap
  /\ \A r \in Calls : x_pc[r] = "returned" /\ x_ret[r].success
  /\ x_stdin[1] # x_stdin[2]
  /\ x_ret[1].stdout = <<"x", "\n", "a", "\n">>
  /\ x_ret[2].stdout = <<"b", "\n", "y", "\n">>

\* ------------------------------------------------- ScriptRunner: the store
\* StoreSpec runs the calls of two callers of one ScriptRunner in any
\* interleaving of their steps.  A step is one access to the disk (a read or
\* a write of collections.json, a write, read or removal of a body file, a
\* mkdir) together with the local computation that follows it.

MaxOps == 3          \* calls begun in one behaviour

\* the characters of the script names that str.isalnum() accepts
AlnumChars == {"a", "b"}
KeptChar(c) == c \in AlnumChars \/ c \in {"-", "_"}

\* str.strip(): no leading or trailing whitespace
RECURSIVE Strip(_)
Strip(s) ==
  IF s = <<>> THEN s
  ELSE IF Head(s) = " " THEN Strip(Tail(s))
  ELSE IF s[Len(s)] = " " THEN Strip(SubSeq(s, 1, Len(s) - 1))
  ELSE s

\* the name used unchanged
SanitizeNothing(name) == name

\* line 304
Sanitize(name) == Strip(SelectSeq(name, KeptChar))

\* every clean name accepted
clean_name_never_rejected(clean) == FALSE

\* line 305: if not clean_name
clean_name_rejected(clean) == clean = <<>>

\* line 308
FileName(clean) == clean \o <<".py">>

\* the components of a path text, cut at "/"
RECURSIVE SplitPath(_)
SplitPath(f) ==
  LET sl == {i \in 1..Len(f) : f[i] = "/"} IN
  IF f = <<>> THEN <<>>
  ELSE IF sl = {} THEN <<f>>
  ELSE LET i == CHOOSE j \in sl : \A k \in sl : j <= k
           rest == SplitPath(SubSeq(f, i + 1, Len(f)))
       IN IF i = 1 THEN rest ELSE <<SubSeq(f, 1, i - 1)>> \o rest

\* the place a path names once the file system has followed its ".."
RECURSIVE Resolve(_, _)
Resolve(done, parts) ==
  IF parts = <<>> THEN done
  ELSE LET part == Head(parts) IN
       IF part = <<".", ".">> /\ done # <<>> /\ done[Len(done)] # <<".", ".">>
         THEN Resolve(SubSeq(done, 1, Len(done) - 1), Tail(parts))
       ELSE IF part = <<".">> THEN Resolve(done, Tail(parts))
       ELSE Resolve(Append(done, part), Tail(parts))

\* self.base_path, relative to the working directory
BaseDir == <<"scripts">>

\* a collection name as a path: its parts between the "/"
NameParts(name) ==
  IF name = "Team/Security" THEN << <<"Team">>, <<"Security">> >>
  ELSE << <<name>> >>

\* lines 309, 346, 366: self.base_path / collection / filename
FilePath(collection, filename) ==
  Resolve(<<>>, <<BaseDir>> \o NameParts(collection) \o SplitPath(filename))

\* lines 79, 96: self.base_path / name, the place it names
DirPath(name) == Resolve(<<>>, <<BaseDir>> \o NameParts(name))

\* the directories that exist: the working directory and those above it, and
\* those of dirs, named from the base directory ("." is the base directory)
DirExists(path) ==
  \/ \A i \in 1..Len(path) : path[i] = <<".", ".">>
  \/ \E c \in dirs : path = DirPath(c)

\* path is dir or lies below it
Below(dir, path) ==
  Len(path) >= Len(dir) /\ SubSeq(path, 1, Len(dir)) = dir

\* lines 58-60: what _load_collections returns when collections.json is missing
DefaultCollections == [c \in {"Uncategorized"} |-> <<>>]

\* lines 62-65: open(self.collections_file, 'w') needs the base directory
BaseExists == DirExists(<<BaseDir>>)

ParentDir(path) == SubSeq(path, 1, Len(path) - 1)

\* line 111: data["collections"].get(collection, {}).get("scripts", [])
ScriptsIn(data, collection) ==
  IF collection \in DOMAIN data THEN data[collection] ELSE <<>>

\* lines 341, 361: next((s for s in scripts if s["name"] == name), None)
Named(scripts, name) ==
  LET at == {i \in 1..Len(scripts) : scripts[i].name = name} IN
  IF at = {} THEN <<>>
  ELSE <<scripts[CHOOSE i \in at : \A j \in at : i <= j]>>

\* a filter that removes no entry
WithoutNameKeepsAll(scripts, name) == scripts

\* lines 121, 132: [s for s in scripts if s["name"] != name]
RECURSIVE WithoutName(_, _)
WithoutName(scripts, name) ==
  IF scripts = <<>> THEN <<>>
  ELSE IF Head(scripts).name = name THEN WithoutName(Tail(scripts), name)
  ELSE <<Head(scripts)>> \o WithoutName(Tail(scripts), name)

InCall(t) == call[t].pc \notin {"idle", "done"}

\* a caller begins a call
Begin(t, op, pc0, name, code, collection) ==
  /\ ~InCall(t)
  /\ ops < MaxOps
  /\ ops' = ops + 1
  /\ call' = [call EXCEPT ![t] =
       [IdleCall EXCEPT !.op = op, !.pc = pc0, !.name = name, !.code = code,
          !.collection = collection,
          !.known = collection \in DOMAIN collections_file,
          !.had = Named(ScriptsIn(collections_file, collection), name) # <<>>,
          !.expect = IF name \in ScriptNames
                       THEN saved[<<name, collection>>] ELSE NoCode,
          !.gone = <<name, collection>> \in deleted]]
  /\ effects' = [effects EXCEPT ![t] = {}]
  /\ overlapped' = (overlapped \/ \E o \in Callers \ {t} : InCall(o))
  /\ UNCHANGED <<collections_file, dirs, files, now>>

\* the call returns v; its locals are gone
Return(t, v) ==
  call' = [call EXCEPT ![t].pc = "done", ![t].value = v,
                       ![t].data = NoData, ![t].filename = <<>>,
                       ![t].metadata = <<>>, ![t].created = 0,
                       ![t].modified = 0]
Goto(t, pc1) == call' = [call EXCEPT ![t].pc = pc1]
At(t, op, pc0) == call[t].op = op /\ call[t].pc = pc0

Effect(t, kind, path) ==
  effects' = [effects EXCEPT ![t] = @ \cup {[kind |-> kind, path |-> path]}]

notStore == <<sandboxVars, isoVars, sideVars>>

\* ------------------------------------------------------------ save_script
\* line 294: the call begins
save_script(t, name, code, collection) ==
  /\ Begin(t, "save", "s300", name, code, collection)
  /\ saved' = [saved EXCEPT ![<<name, collection>>] = NoCode]
  /\ deleted' = deleted \ {<<name, collection>>}
  /\ UNCHANGED notStore

\* lines 300-308: the collection must be listed; the name is sanitized
SaveCheck(t) ==
  /\ At(t, "save", "s300")
  /\ LET clean == Sanitize(call[t].name) IN
     IF call[t].collection \notin DOMAIN collections_file
       THEN Return(t, PyBool(FALSE))
     ELSE IF clean_name_rejected(clean)
       THEN Return(t, PyBool(FALSE))
     ELSE call' = [call EXCEPT ![t].pc = "s312", ![t].filename = FileName(clean)]
  /\ UNCHANGED <<collections_file, dirs, files, now, effects, saved, deleted,
                 overlapped, ops, notStore>>

\* lines 309-316: open() creates or empties the file and write() fills it; an
\* IOError gives False, the UnicodeEncodeError of write() is not an IOError
SaveWrite(t) ==
  /\ At(t, "save", "s312")
  /\ LET path == FilePath(call[t].collection, call[t].filename) IN
     IF ~DirExists(ParentDir(path))
       THEN /\ Return(t, PyBool(FALSE))
            /\ UNCHANGED <<files, effects>>
     ELSE IF ~Encodable(call[t].code)
       THEN /\ files' = Put(files, path, "")
            /\ Effect(t, "write", path)
            /\ Return(t, Raised("UnicodeEncodeError"))
     ELSE /\ files' = Put(files, path, call[t].code)
          /\ Effect(t, "write", path)
          /\ Goto(t, "s319")
  /\ UNCHANGED <<collections_file, dirs, now, saved, deleted, overlapped, ops,
                 notStore>>

\* lines 319-333: the metadata; created is taken over from the listed entry
SaveMetadata(t) ==
  /\ At(t, "save", "s319")
  /\ LET existing == Named(ScriptsIn(collections_file, call[t].collection),
                           call[t].name) IN
     call' = [call EXCEPT ![t].pc = "s115",
                          ![t].modified = now,
                          ![t].created = IF existing # <<>>
                                           THEN existing[1].created ELSE now]
  /\ now' = now + 1
  /\ UNCHANGED <<collections_file, dirs, files, effects, saved, deleted,
                 overlapped, ops, notStore>>

\* line 115: add_script_to_collection loads collections.json
AddLoad(t) ==
  /\ At(t, "save", "s115")
  /\ call' = [call EXCEPT ![t].pc = "s116", ![t].data = collections_file]
  /\ UNCHANGED <<collections_file, dirs, files, now, effects, saved, deleted,
                 overlapped, ops, notStore>>

\* lines 116-125 and 336: the entry replaces the one of the same name in the
\* loaded data, the whole data is written back, save_script returns True
AddSave(t) ==
  /\ At(t, "save", "s116")
  /\ LET c == call[t]
         entry == [name |-> c.name, filename |-> c.filename,
                   created |-> c.created, modified |-> c.modified]
     IN IF c.collection \notin DOMAIN c.data
          THEN /\ Return(t, PyBool(TRUE))
               /\ saved' = [saved EXCEPT ![<<c.name, c.collection>>] = c.code]
               /\ UNCHANGED <<collections_file, effects>>
        ELSE IF ~BaseExists
          THEN /\ Return(t, Raised("FileNotFoundError"))
               /\ UNCHANGED <<collections_file, effects, saved>>
        ELSE /\ collections_file' =
                  [c.data EXCEPT ![c.collection] =
                     WithoutName(@, c.name) \o <<entry>>]
             /\ Effect(t, "meta", <<>>)
             /\ Return(t, PyBool(TRUE))
             /\ saved' = [saved EXCEPT ![<<c.name, c.collection>>] = c.code]
  /\ UNCHANGED <<dirs, files, now, deleted, overlapped, ops, notStore>>

\* ------------------------------------------------------------ load_script
load_script(t, name, collection) ==
  /\ Begin(t, "load", "l340", name, NoCode, collection)
  /\ UNCHANGED <<saved, deleted, notStore>>

\* lines 340-344
LoadMetadata(t) ==
  /\ At(t, "load", "l340")
  /\ LET m == Named(ScriptsIn(collections_file, call[t].collection),
                    call[t].name) IN
     IF m = <<>> THEN Return(t, None)
     ELSE call' = [call EXCEPT ![t].pc = "l346", ![t].metadata = m,
                               ![t].filename = m[1].filename]
  /\ UNCHANGED <<collections_file, dirs, files, now, effects, saved, deleted,
                 overlapped, ops, notStore>>

\* lines 346-356
LoadBody(t) ==
  /\ At(t, "load", "l346")
  /\ LET path == FilePath(call[t].collection, call[t].filename) IN
     IF path \in DOMAIN files
       THEN Return(t, [t |-> "dict", code |-> files[path],
                       metadata |-> call[t].metadata[1]])
       ELSE Return(t, None)
  /\ UNCHANGED <<collections_file, dirs, files, now, effects, saved, deleted,
                 overlapped, ops, notStore>>

\* ---------------------------------------------------------- delete_script
delete_script(t, name, collection) ==
  /\ Begin(t, "delete", "d360", name, NoCode, collection)
  /\ saved' = [saved EXCEPT ![<<name, collection>>] = NoCode]
  /\ UNCHANGED <<deleted, notStore>>

\* lines 360-364
DeleteFind(t) ==
  /\ At(t, "delete", "d360")
  /\ LET m == Named(ScriptsIn(collections_file, call[t].collection),
                    call[t].name) IN
     IF m = <<>> THEN Return(t, PyBool(FALSE))
     ELSE call' = [call EXCEPT ![t].pc = "d366", ![t].metadata = m,
                               ![t].filename = m[1].filename]
  /\ UNCHANGED <<collections_file, dirs, files, now, effects, saved, deleted,
                 overlapped, ops, notStore>>

\* lines 366-367: file_path.exists()
DeleteExists(t) ==
  /\ At(t, "delete", "d366")
  /\ IF FilePath(call[t].collection, call[t].filename) \in DOMAIN files
       THEN Goto(t, "d368")
       ELSE Goto(t, "d129")
  /\ UNCHANGED <<collections_file, dirs, files, now, effects, saved, deleted,
                 overlapped, ops, notStore>>

\* line 368: os.remove(file_path); FileNotFoundError when the file has gone
\* since line 367
DeleteBody(t) ==
  /\ At(t, "delete", "d368")
  /\ LET path == FilePath(call[t].collection, call[t].filename) IN
     IF path \in DOMAIN files
       THEN /\ files' = [q \in DOMAIN files \ {path} |-> files[q]]
            /\ Effect(t, "remove", path)
            /\ Goto(t, "d129")
       ELSE /\ Return(t, Raised("FileNotFoundError"))
            /\ UNCHANGED <<files, effects>>
  /\ UNCHANGED <<collections_file, dirs, now, saved, deleted, overlapped, ops,
                 notStore>>

\* line 129: remove_script_from_collection loads collections.json
RemoveLoad(t) ==
  /\ At(t, "delete", "d129")
  /\ call' = [call EXCEPT ![t].pc = "d130", ![t].data = collections_file]
  /\ UNCHANGED <<collections_file, dirs, files, now, effects, saved, deleted,
                 overlapped, ops, notStore>>

\* lines 130-134 and 371
RemoveSave(t) ==
  /\ At(t, "delete", "d130")
  /\ LET c == call[t] IN
     IF c.collection \notin DOMAIN c.data
       THEN /\ Return(t, PyBool(TRUE))
            /\ deleted' = deleted \cup {<<c.name, c.collection>>}
            /\ UNCHANGED <<collections_file, effects>>
     ELSE IF ~BaseExists
       THEN /\ Return(t, Raised("FileNotFoundError"))
            /\ UNCHANGED <<collections_file, effects, deleted>>
     ELSE /\ collections_file' =
               [c.data EXCEPT ![c.collection] = WithoutName(@, c.name)]
          /\ Effect(t, "meta", <<>>)
          /\ Return(t, PyBool(TRUE))
          /\ deleted' = deleted \cup {<<c.name, c.collection>>}
  /\ UNCHANGED <<dirs, files, now, saved, overlapped, ops, notStore>>

\* ------------------------------------------------------ create_collection
create_collection(t, name) ==
  /\ Begin(t, "create", "c69", <<>>, NoCode, name)
  /\ UNCHANGED <<saved, deleted, notStore>>

\* lines 69-76
CreateLoad(t) ==
  /\ At(t, "create", "c69")
  /\ IF call[t].collection \in DOMAIN collections_file
       THEN Return(t, PyBool(FALSE))
       ELSE call' = [call EXCEPT ![t].pc = "c79", ![t].data = collections_file]
  /\ UNCHANGED <<collections_file, dirs, files, now, effects, saved, deleted,
                 overlapped, ops, notStore>>

\* line 79: mkdir(exist_ok=True) makes no parent directory
CreateDir(t) ==
  /\ At(t, "create", "c79")
  /\ IF DirExists(ParentDir(DirPath(call[t].collection)))
       THEN /\ dirs' = dirs \cup {call[t].collection}
            /\ Effect(t, "mkdir", DirPath(call[t].collection))
            /\ Goto(t, "c81")
       ELSE /\ Return(t, Raised("FileNotFoundError"))
            /\ UNCHANGED <<dirs, effects>>
  /\ UNCHANGED <<collections_file, files, now, saved, deleted, overlapped, ops,
                 notStore>>

\* lines 81-82
CreateSave(t) ==
  /\ At(t, "create", "c81")
  /\ IF BaseExists
       THEN /\ collections_file' = Put(call[t].data, call[t].collection, <<>>)
            /\ Effect(t, "meta", <<>>)
            /\ Return(t, PyBool(TRUE))
       ELSE /\ Return(t, Raised("FileNotFoundError"))
            /\ UNCHANGED <<collections_file, effects>>
  /\ UNCHANGED <<dirs, files, now, saved, deleted, overlapped, ops, notStore>>

\* ------------------------------------------------------ delete_collection
delete_collection(t, name) ==
  /\ Begin(t, "drop", "x86", <<>>, NoCode, name)
  /\ saved' = [k \in DOMAIN saved |-> IF k[2] = name THEN NoCode ELSE saved[k]]
  /\ UNCHANGED <<deleted, notStore>>

\* a delete_collection that refuses no name
DropLoadAnyName(t) ==
  /\ At(t, "drop", "x86")
  /\ IF call[t].collection \notin DOMAIN collections_file
       THEN Return(t, PyBool(FALSE))
       ELSE call' = [call EXCEPT ![t].pc = "x92", ![t].data = collections_file]
  /\ UNCHANGED <<collections_file, dirs, files, now, effects, saved, deleted,
                 overlapped, ops, notStore>>

\* lines 86-90
DropLoad(t) ==
  /\ At(t, "drop", "x86")
  /\ IF call[t].collection = "Uncategorized"
          \/ call[t].collection \notin DOMAIN collections_file
       THEN Return(t, PyBool(FALSE))
       ELSE call' = [call EXCEPT ![t].pc = "x92", ![t].data = collections_file]
  /\ UNCHANGED <<collections_file, dirs, files, now, effects, saved, deleted,
                 overlapped, ops, notStore>>

\* lines 92-93
DropSave(t) ==
  /\ At(t, "drop", "x92")
  /\ IF BaseExists
       THEN /\ collections_file' =
                 [c \in DOMAIN call[t].data \ {call[t].collection}
                    |-> call[t].data[c]]
            /\ Effect(t, "meta", <<>>)
            /\ Goto(t, "x96")
       ELSE /\ Return(t, Raised("FileNotFoundError"))
            /\ UNCHANGED <<collections_file, effects>>
  /\ UNCHANGED <<dirs, files, now, saved, deleted, overlapped, ops, notStore>>

\* lines 96-100: shutil.rmtree of the place self.base_path / name names, with
\* every directory and file below it, collections.json among them when the
\* place is the base directory
DropDir(t) ==
  /\ At(t, "drop", "x96")
  /\ LET dir == DirPath(call[t].collection) IN
     IF DirExists(dir)
       THEN /\ dirs' = {c \in dirs : ~Below(dir, DirPath(c))}
            /\ files' = [q \in {r \in DOMAIN files : ~Below(dir, r)}
                           |-> files[q]]
            /\ collections_file' = IF Below(dir, <<BaseDir>>)
                                     THEN DefaultCollections
                                     ELSE collections_file
            /\ Effect(t, "rmtree", dir)
       ELSE UNCHANGED <<collections_file, dirs, files, effects>>
  /\ Return(t, PyBool(TRUE))
  /\ UNCHANGED <<now, saved, deleted, overlapped, ops, notStore>>

StoreInit == SandboxIdle /\ IsoIdle /\ StoreIdle /\ UIIdle /\ GCIdle

StoreNext ==
  \E t \in Callers :
    \/ \E n \in ScriptNames, k \in Codes, c \in CollectionNames : save_script(t, n, k, c)
    \/ SaveCheck(t) \/ SaveWrite(t) \/ SaveMetadata(t) \/ AddLoad(t) \/ AddSave(t)
    \/ \E n \in ScriptNames, c \in CollectionNames : load_script(t, n, c)
    \/ LoadMetadata(t) \/ LoadBody(t)
    \/ \E n \in ScriptNames, c \in CollectionNames : delete_script(t, n, c)
    \/ DeleteFind(t) \/ DeleteExists(t) \/ DeleteBody(t)
    \/ RemoveLoad(t) \/ RemoveSave(t)
    \/ \E c \in CollectionNames : create_collection(t, c)
    \/ CreateLoad(t) \/ CreateDir(t) \/ CreateSave(t)
    \/ \E c \in CollectionNames : delete_collection(t, c)
    \/ DropLoad(t) \/ DropSave(t) \/ DropDir(t)

StoreSpec == StoreInit /\ [][StoreNext]_vars

\* ------------------------------------- one caller, any name for a collection
\* names create_collection takes as it takes any other: the base directory
\* itself and a directory below one that does not exist
AcceptedNames == CollectionNames \cup {".", "Team/Security"}
Manager == 1

CollectionInit == SandboxIdle /\ IsoIdle /\ StoreIdle /\ UIIdle /\ GCIdle

CollectionNext ==
  \/ \E c \in AcceptedNames : create_collection(Manager, c)
  \/ CreateLoad(Manager) \/ CreateDir(Manager) \/ CreateSave(Manager)
  \/ \E c \in AcceptedNames : delete_collection(Manager, c)
  \/ DropLoad(Manager) \/ DropSave(Manager) \/ DropDir(Manager)
  \/ \E n \in ScriptNames, k \in Codes, c \in CollectionNames :
       save_script(Manager, n, k, c)
  \/ SaveCheck(Manager) \/ SaveWrite(Manager) \/ SaveMetadata(Manager)
  \/ AddLoad(Manager) \/ AddSave(Manager)
  \/ \E n \in ScriptNames, c \in CollectionNames : load_script(Manager, n, c)
  \/ LoadMetadata(Manager) \/ LoadBody(Manager)
  \/ \E n \in ScriptNames, c \in CollectionNames :
       delete_script(Manager, n, c)
  \/ DeleteFind(Manager) \/ DeleteExists(Manager) \/ DeleteBody(Manager)
  \/ RemoveLoad(Manager) \/ RemoveSave(Manager)

CollectionSpec == CollectionInit /\ [][CollectionNext]_vars

\* ----------------------------------------------------- claims on the store
Done(t, op) == call[t].op = op /\ call[t].pc = "done"
Listed(collection, name) ==
  Named(ScriptsIn(collections_file, collection), name) # <<>>

\* <clean>.py with clean made of alphanumerics, '-' and '_' only
CleanFileName(f) ==
  /\ Len(f) >= 2
  /\ f[Len(f)] = ".py"
  /\ \A i \in 1..(Len(f) - 1) : f[i] \in {"a", "b", "-", "_"}

\* C16: a save_script that returns True has written exactly one body file and
\* removed none; the file lies directly in the directory of the collection
\* it was called with and is named <clean>.py; and no body file ever exists
\* anywhere else than directly in a collection's directory.
C16_BodyInsideCollection ==
  /\ \A path \in DOMAIN files :
       /\ Len(path) = 3
       /\ path[1] = BaseDir
       /\ \E c \in CollectionNames : path[2] = <<c>>
       /\ CleanFileName(path[3])
  /\ \A t \in Callers :
       (Done(t, "save") /\ call[t].value = PyBool(TRUE)) =>
         LET onFiles == {e \in effects[t] : e.kind \in {"write", "remove"}} IN
         /\ Cardinality(onFiles) = 1
         /\ \A e \in onFiles :
              /\ e.kind = "write"
              /\ Len(e.path) = 3
              /\ e.path[1] = BaseDir
              /\ e.path[2] = <<call[t].collection>>
              /\ CleanFileName(e.path[3])

\* save_script("../a", code, "Security") returned True and the body is
\* Security/a.py
C16_Witness ==
  \E t \in Callers :
    /\ Done(t, "save") /\ call[t].value = PyBool(TRUE)
    /\ call[t].name = <<".", ".", "/", "a">>
    /\ call[t].collection = "Security"
    /\ <<BaseDir, <<"Security">>, <<"a", ".py">>>> \in DOMAIN files
    /\ files[<<BaseDir, <<"Security">>, <<"a", ".py">>>>] = call[t].code

\* C17: a save_script whose name has no alphanumeric, '-' or '_' character
\* returns False and writes, removes or creates nothing, neither a body file
\* nor the metadata.
C17_EmptyNameRejected ==
  \A t \in Callers :
    (call[t].op = "save" /\ \A i \in 1..Len(call[t].name) :
                               call[t].name[i] \notin {"a", "b", "-", "_"}) =>
      /\ effects[t] = {}
      /\ call[t].pc = "done" => call[t].value = PyBool(FALSE)

\* save_script("../..", code, "Uncategorized") returned False with scripts in
\* the store
C17_Witness ==
  \E t \in Callers :
    /\ Done(t, "save") /\ call[t].value = PyBool(FALSE)
    /\ call[t].name = <<".", ".", "/", ".", ".">>
    /\ call[t].collection = "Uncategorized"
    /\ effects[t] = {}
    /\ DOMAIN files # {}
    /\ collections_file["Uncategorized"] # <<>>

\* C18: a load_script(name, collection) that follows a save_script(name,
\* code, collection) that returned True, with no save or delete of that
\* script in between, returns that code - whatever was saved or deleted under
\* other names in between; the calls run one after the other.
C18_SaveLoadRoundTrip ==
  \A t \in Callers :
    (Done(t, "load") /\ ~overlapped /\ call[t].expect # NoCode) =>
      /\ call[t].value.t = "dict"
      /\ call[t].value.code = call[t].expect

\* C19: once delete_script(name, collection) has returned True and until a
\* save of that script begins, the collection lists no entry of that name and
\* load_script returns None; a delete_script of a name that is not listed
\* returns False and writes or removes nothing; the calls run one after the
\* other.
C19_DeleteRemoves ==
  ~overlapped =>
    /\ \A k \in deleted : ~Listed(k[2], k[1])
    /\ \A t \in Callers :
         /\ (Done(t, "load") /\ call[t].gone) => call[t].value = None
         /\ (call[t].op = "delete" /\ ~call[t].had) =>
              /\ effects[t] = {}
              /\ call[t].pc = "done" => call[t].value = PyBool(FALSE)
         /\ (Done(t, "delete") /\ call[t].had) => call[t].value = PyBool(TRUE)

\* a script was saved, deleted and loaded: None
C19_Witness ==
  /\ ~overlapped
  /\ \E t \in Callers :
       /\ Done(t, "load") /\ call[t].value = None /\ call[t].gone
       /\ call[t].name = <<"a">>

\* C20: when the only two calls made on a store are a save_script by one
\* caller and a save_script or delete_script by the other, on different
\* script names in the same collection, and both returned True, the
\* collection's list shows both updates: each saved name is listed, a deleted
\* name is not.
C20_MetadataUpdatesSerialized ==
  \A t \in Callers : \A o \in Callers \ {t} :
    (/\ Done(t, "save") /\ call[t].value = PyBool(TRUE)
     /\ ops = 2
     /\ call[o].op \in {"save", "delete"} /\ call[o].pc = "done"
     /\ call[o].value = PyBool(TRUE)
     /\ call[o].collection = call[t].collection
     /\ call[o].name # call[t].name) =>
      /\ Listed(call[t].collection, call[t].name)
      /\ call[o].op = "save" => Listed(call[o].collection, call[o].name)
      /\ call[o].op = "delete" => ~Listed(call[o].collection, call[o].name)

\* the entries of a collection's list that carry the name
EntriesNamed(collection, name) ==
  LET scripts == ScriptsIn(collections_file, collection) IN
  {i \in 1..Len(scripts) : scripts[i].name = name}

\* C21: in every state of the store, under every interleaving of the calls,
\* no collection's script list holds two entries of the same name.
C21_OneEntryPerName ==
  \A c \in DOMAIN collections_file : \A n \in ScriptNames :
    Cardinality(EntriesNamed(c, n)) <= 1

\* a save of a listed name has returned True beside another script: the list
\* holds one entry of the name, modified after it was created
C21_Witness ==
  \E t \in Callers :
    /\ Done(t, "save") /\ call[t].value = PyBool(TRUE) /\ call[t].had
    /\ Len(ScriptsIn(collections_file, call[t].collection)) = 2
    /\ \E i \in EntriesNamed(call[t].collection, call[t].name) :
         LET e == ScriptsIn(collections_file, call[t].collection)[i] IN
         e.modified > e.created

\* C22: once a save_script(name, code, collection) has returned True, and
\* until a save or delete of that script or a delete of the collection
\* begins, the collection's list holds an entry of that name - whatever calls
\* of other callers ran beside the save.
C22_SavedIsListed ==
  \A n \in ScriptNames : \A c \in CollectionNames :
    saved[<<n, c>>] # NoCode => Listed(c, n)

\* C23: no call of the store ends with an exception; a call that reports a
\* failure (False or None) has written nothing, neither file nor metadata; a
\* save_script into a collection that is not listed returns False, a
\* load_script of a script that is not listed returns None and a
\* delete_script of one returns False; the calls run one after the other.
C23_FailuresAreValues ==
  ~overlapped =>
    \A t \in Callers :
      call[t].pc = "done" =>
        /\ call[t].value.t # "raise"
        /\ call[t].value \in {PyBool(FALSE), None} => effects[t] = {}
        /\ (call[t].op = "save" /\ ~call[t].known) =>
             call[t].value = PyBool(FALSE)
        /\ (call[t].op = "load" /\ ~call[t].had) => call[t].value = None
        /\ (call[t].op = "delete" /\ ~call[t].had) =>
             call[t].value = PyBool(FALSE)

\* --------------------------------------------------- claims on safe_import
DenyList ==
  {"os", "sys", "subprocess", "shutil", "builtins", "pathlib", "importlib"}

\* C24: an import statement that reaches safe_import is refused with
\* ImportError, binding nothing, exactly when its module name or one of the
\* names of its fromlist is in the deny-list; every other import raises
\* nothing and binds what __import__ returns.
C24_RefusedExactlyWhenDenied ==
  [][\A f \in ImportForms :
       (ExecImport(f) /\ BindingOf("__import__") # "unbound") =>
         IF f.name \in DenyList \/ f.fromlist \cap DenyList # {}
           THEN /\ exc'.type = "ImportError"
                /\ refused' = f
                /\ bound_modules' = bound_modules
           ELSE /\ exc' = exc /\ cpc' = cpc
                /\ refused' = refused
                /\ bound_modules' = bound_modules \cup ImportBinds(f.name, f.fromlist)]_vars

\* import socket went through, then from math import os was refused
C24_Witness ==
  /\ refused = [name |-> "math", fromlist |-> {"os"}]
  /\ exc.type = "ImportError"
  /\ ModuleObject("socket") \in bound_modules

\* C25: once a timed-out execute() has returned, neither the child process
\* nor a process the script started is running.
C25_ProcessTreeTerminated ==
  (Returned /\ timed_out) => (~ChildAlive /\ ~descendant)

\* C26: whenever execute() returns success=True, the stdout and stderr it
\* returns are what the child captured, at whatever point the child ended.
C26_SuccessCarriesCapture ==
  (Returned /\ ret.success = TRUE) =>
    /\ ret.stdout = stdout_capture
    /\ ret.stderr = stderr_capture

\* C27: execute() is at p.terminate() or behind it, and returns the
\* "Timeout exceeded" record, only when the deadline has passed with the child
\* still running; a child ended by terminate() was running when the deadline
\* passed; and when the child had exited at the check of line 254 - as every
\* child that exited before the deadline has - execute() returns the success
\* flag, stdout, stderr and error the child reported, unchanged.
C27_TerminatedOnlyOnExpiry ==
  /\ (pc \in {"terminate", "join_terminated"} \/ exit_cause = "sigterm"
        \/ (Returned /\ ret.error = Str(TimeoutMessage))) =>
       (timed_out /\ clock >= deadline)
  /\ (pc \in {"collect", "returned"} /\ clock < deadline) =>
       (~timed_out /\ exit_cause \in {"normal", "uncaught", "killed"})
  /\ (Returned /\ ~timed_out) =>
       \A k \in {"success", "stdout", "stderr", "error"} \cap DOMAIN return_dict :
         ret[k] = return_dict[k]

\* a failing script with output exited before the deadline and its report was
\* returned
C27_Witness ==
  /\ Returned /\ clock < deadline /\ exit_cause = "normal"
  /\ "error" \in DOMAIN return_dict /\ ret.error = return_dict["error"]
  /\ ret.stdout # <<>> /\ ret.stdout = return_dict["stdout"]

\* C28: the execution_time execute() returns is the time that has passed
\* since it set start_time, on the timeout path as on the others.
C28_ElapsedOnEveryPath ==
  Returned => ret.execution_time = clock - start_time

\* C29: whatever the stdin text of the call and whatever another call, before
\* it or beside it, does to its own __builtins__, the table a call's script
\* starts with is the allowed built-ins and the call's input primitive, and
\* afterwards it changes only by the script's own statements; the deny-list
\* safe_import applies is the same seven names in each call.
C29_SameTableForEveryCall ==
  /\ \A r \in Calls :
       /\ x_cpc[r] # "none" => x_builtins[BuiltinsOf(r)] = x_mine[r]
       /\ (x_cpc[r] = "run" /\ x_steps[r] = 0) =>
            x_builtins[BuiltinsOf(r)] = AllowedBuiltins \cup {"input"}
  /\ blocked_modules = DenyList

\* one call has taken len out of its table and put open in, and the other
\* call starts beside it with the table as built
C29_Witness ==
  \E r \in Calls : \E o \in Calls \ {r} :
    /\ x_overlap
    /\ x_cpc[r] = "run" /\ "open" \in x_builtins[BuiltinsOf(r)]
    /\ "len" \notin x_builtins[BuiltinsOf(r)]
    /\ x_cpc[o] = "run" /\ x_steps[o] = 0
    /\ x_builtins[BuiltinsOf(o)] = AllowedBuiltins \cup {"input"}

\* what a call that returned True has put into the metadata is there
UpdatePresent(t) ==
  CASE call[t].op = "save" -> Listed(call[t].collection, call[t].name)
    [] call[t].op = "delete" -> ~Listed(call[t].collection, call[t].name)
    [] call[t].op = "create" -> call[t].collection \in DOMAIN collections_file
    [] OTHER -> TRUE

\* C30: when the only two calls made on a store are a save_script or
\* delete_script by one caller and a save_script, delete_script or
\* create_collection on another collection by the other, and both returned
\* True, the metadata holds both updates.
C30_CollectionsIndependent ==
  \A t \in Callers : \A o \in Callers \ {t} :
    (/\ ops = 2
     /\ call[t].op \in {"save", "delete"} /\ call[t].pc = "done"
     /\ call[t].value = PyBool(TRUE)
     /\ call[o].op \in {"save", "delete", "create"} /\ call[o].pc = "done"
     /\ call[o].value = PyBool(TRUE)
     /\ call[o].collection # call[t].collection) =>
      (UpdatePresent(t) /\ UpdatePresent(o))

\* no call of the store is under way and none has overlapped another
Quiet == ~overlapped /\ \A t \in Callers : ~InCall(t)

\* C31: after any sequence of saves and deletes, run one after the other,
\* every script listed in a collection has its body file, so that
\* load_script does not return None for it.
C31_ListedIsLoadable ==
  Quiet =>
    \A c \in DOMAIN collections_file :
      \A i \in 1..Len(collections_file[c]) :
        FilePath(c, collections_file[c][i].filename) \in DOMAIN files

\* ------------------------------------------- the Script Runner page: Save
\* UISpec runs the Save handler of one page session on one store, click
\* after click; the calls of save_script and delete_script it makes take the
\* steps of StoreSpec.
Page == 1
notUI == <<sandboxVars, isoVars, gcVars>>

\* app.py lines 764-781: Save is clicked with a name, a code and a collection
\* in the form; the handler calls save_script
save_clicked(name, code, collection) ==
  /\ ui.phase = "idle"
  /\ name # <<>>
  /\ Begin(Page, "save", "s300", name, code, collection)
  /\ saved' = [saved EXCEPT ![<<name, collection>>] = NoCode]
  /\ deleted' = deleted \ {<<name, collection>>}
  /\ ui' = [ui EXCEPT !.phase = "saving", !.script_name = name,
                      !.script_code = code, !.selected_collection = collection,
                      !.moved_from = <<>>]
  /\ UNCHANGED notUI

\* app.py lines 783-796 and 799-811: save_script has returned; when it
\* returned True and the file is at saved_path, a script that was loaded or
\* saved under another name or collection is deleted there, and otherwise the
\* session takes the new identity at once
SaveResult ==
  /\ ui.phase = "saving"
  /\ call[Page].op = "save" /\ call[Page].pc = "done"
  /\ LET saved_path == FilePath(ui.selected_collection,
                                FileName(Sanitize(ui.script_name)))
     IN IF call[Page].value = PyBool(TRUE) /\ saved_path \in DOMAIN files
          THEN IF /\ ui.original_name # <<>> /\ ui.original_collection # ""
                  /\ \/ ui.original_name # ui.script_name
                     \/ ui.original_collection # ui.selected_collection
                 THEN /\ Begin(Page, "delete", "d360", ui.original_name, NoCode,
                               ui.original_collection)
                      /\ saved' = [saved EXCEPT
                           ![<<ui.original_name, ui.original_collection>>] = NoCode]
                      /\ ui' = [ui EXCEPT !.phase = "moving"]
                      /\ UNCHANGED deleted
                 ELSE /\ ui' = [ui EXCEPT !.phase = "idle",
                                  !.original_name = ui.script_name,
                                  !.original_collection = ui.selected_collection]
                      /\ UNCHANGED storeVars
          ELSE /\ ui' = [ui EXCEPT !.phase = "idle"]
               /\ UNCHANGED storeVars
  /\ UNCHANGED notUI

\* app.py lines 796-805: delete_script has returned (its value is not looked
\* at); the session takes the new identity
MoveDone ==
  /\ ui.phase = "moving"
  /\ call[Page].op = "delete" /\ call[Page].pc = "done"
  /\ ui' = [ui EXCEPT !.phase = "idle",
                      !.original_name = ui.script_name,
                      !.original_collection = ui.selected_collection,
                      !.moved_from = <<ui.original_name, ui.original_collection>>]
  /\ UNCHANGED <<storeVars, notUI>>

UIInit == SandboxIdle /\ IsoIdle /\ StoreIdle /\ UIIdle /\ GCIdle

UINext ==
  \/ \E n \in ScriptNames, k \in Codes, c \in CollectionNames : save_clicked(n, k, c)
  \/ SaveResult
  \/ MoveDone
  \/ SaveCheck(Page) \/ SaveWrite(Page) \/ SaveMetadata(Page)
  \/ AddLoad(Page) \/ AddSave(Page)
  \/ DeleteFind(Page) \/ DeleteExists(Page) \/ DeleteBody(Page)
  \/ RemoveLoad(Page) \/ RemoveSave(Page)

UISpec == UIInit /\ [][UINext]_vars

\* C32: when the Save handler has saved the session's script under another
\* name and deleted it under the original one, the script is listed under
\* the new name with its body file holding the saved code, and no entry is
\* left under the original name.
C32_MovedScriptLoadable ==
  (ui.phase = "idle" /\ ui.moved_from # <<>>) =>
    LET m == Named(ScriptsIn(collections_file, ui.original_collection),
                   ui.original_name)
    IN /\ m # <<>>
       /\ FilePath(ui.original_collection, m[1].filename) \in DOMAIN files
       /\ files[FilePath(ui.original_collection, m[1].filename)] = ui.script_code
       /\ ~Listed(ui.moved_from[2], ui.moved_from[1])

\* ------------------------------------------- claims on whole collections
\* C33: delete_collection(name) returns True only for a listed collection other
\* than "Uncategorized", and removing its directory leaves every other
\* collection listed, with its entries and the body of each entry as they were,
\* whatever name create_collection accepted for the collection
C33_RemovesExactlyThat ==
  [][\A t \in Callers :
       /\ (DropLoad(t) /\ call'[t].pc = "x92") =>
            /\ call[t].collection # "Uncategorized"
            /\ call[t].collection \in DOMAIN collections_file
       /\ DropDir(t) =>
            \A c \in DOMAIN collections_file :
              /\ c \in DOMAIN collections_file'
              /\ collections_file'[c] = collections_file[c]
              /\ \A i \in 1..Len(collections_file[c]) :
                   LET body == FilePath(c, collections_file[c][i].filename) IN
                   body \in DOMAIN files =>
                     body \in DOMAIN files' /\ files'[body] = files[body]]_vars

\* C34: "Uncategorized" is listed in every state, and a finished
\* delete_collection("Uncategorized") has returned False and written nothing
C34_UncategorizedStays ==
  /\ "Uncategorized" \in DOMAIN collections_file
  /\ \A t \in Callers :
       (Done(t, "drop") /\ call[t].collection = "Uncategorized") =>
         call[t].value = PyBool(FALSE) /\ effects[t] = {}

\* delete_collection("Uncategorized") has returned in a store that has
\* another collection with a script in it
C34_Witness ==
  /\ Done(Manager, "drop")
  /\ call[Manager].collection = "Uncategorized"
  /\ \E c \in DOMAIN collections_file \ {"Uncategorized"} : TRUE
  /\ DOMAIN files # {}

\* C35: create_collection(name) ends with False and nothing written when name
\* was listed, and otherwise with True and collections.json as it was plus
\* name with an empty list of scripts
C35_CreatesOrRefuses ==
  [][\A t \in Callers :
       (call[t].op = "create" /\ InCall(t) /\ call'[t].pc = "done") =>
         IF call[t].known
           THEN call'[t].value = PyBool(FALSE) /\ effects'[t] = {}
           ELSE /\ call'[t].value = PyBool(TRUE)
                /\ collections_file' =
                     Put(collections_file, call[t].collection, <<>>)]_vars

\* C36: the entry a save_script writes has created <= modified and the
\* modified of this save; when the script had been saved and not deleted since,
\* the entry keeps the created of the entry it replaces
C36_CreatedIsKept ==
  [][\A t \in Callers :
       (AddSave(t) /\ call[t].collection \in DOMAIN call[t].data) =>
         LET c == call[t]
             old == Named(ScriptsIn(collections_file, c.collection), c.name)
             new == Named(ScriptsIn(collections_file', c.collection), c.name)
         IN /\ new # <<>>
            /\ new[1].created <= new[1].modified
            /\ new[1].modified = c.modified
            /\ c.expect # NoCode => /\ old # <<>>
                                    /\ new[1].created = old[1].created]_vars

\* ------------------------------------------------------ GrammarCorrector
\* GrammarSpec runs one call of correct(text) of a GrammarCorrector, statement
\* by statement, with a model that answers or fails each call as it likes.
\* Texts are sequences of characters, messages sequences of words, delays
\* tenths of a second.

MaxRetries == 3      \* the largest max_retries of a corrector

\* the texts given to correct(): empty, too short once stripped, long enough
Texts == { <<>>, <<" ", "h", "e", " ">>, <<"h", "e", " ", "w", "a", "l", "k">> }

\* lines 40-42: the settings of the constructor
RetrySettings == 0..MaxRetries
BaseDelay == 10
MaxDelays == {15, 100}

\* str.lower() on the words of the messages
Lower(w) ==
  CASE w = "Quota" -> "quota"
    [] w = "API key" -> "api key"
    [] w = "Authentication" -> "authentication"
    [] w = "Rate limit" -> "rate limit"
    [] OTHER -> w

\* k in msg, for the lowered message
Contains(msg, k) == \E i \in 1..Len(msg) : Lower(msg[i]) = k

\* what str(e) of an exception of the model can be
Messages ==
  { <<>>,
    <<"429", "Too", "Many", "Requests">>,
    <<"Quota", "exceeded">>,
    <<"API key", "not", "valid">>,
    <<"Authentication", "failed", "no", "Quota", "project">>,
    <<"500", "Internal">> }

\* a response of generate_content: its text and the texts of the parts of its
\* first candidate, of which there may be none
Response(text, parts) == [t |-> "response", text |-> text, parts |-> parts]
Responses ==
  { None,
    Response(<<" ", "O", "k">>, <<>>),
    Response(<<" ">>, << <<"O", "k">> >>),
    Response(<<>>, << <<"O", "k", " ">> >>),
    Response(<<>>, <<>>) }

\* lines 93-106
extract_text(response) ==
  IF response = None THEN <<>>
  ELSE IF response.text # <<>> THEN Strip(response.text)
  ELSE IF response.parts = <<>> THEN <<>>
  ELSE Strip(response.parts[1])

\* line 125
EmptyReply == <<"Empty", "response", "from", "AI", "model">>

\* line 132: any(k in msg for k in ("429", "quota", "rate limit"))
is_rate_limit(msg) ==
  Contains(msg, "429") \/ Contains(msg, "quota") \/ Contains(msg, "rate limit")

\* line 134: any(k in msg for k in ("api key", "authentication"))
is_authentication(msg) ==
  Contains(msg, "api key") \/ Contains(msg, "authentication")

\* lines 19-26: the exception classes
Error(type, msg) == [t |-> "raise", type |-> type, msg |-> msg]
IsInstance(type, class) ==
  \/ class = "Exception"
  \/ class = type
  \/ class = "GrammarCorrectionError" /\ type = "RateLimitError"

\* lines 176-179
RateLimitMessage ==
  <<"Rate limit", "exceeded.", "Please", "try", "again", "later">>

\* lines 70-74: min(base_delay * 2 ** attempt, max_delay) plus a jitter of at
\* most a tenth of it
Least(a, b) == IF a <= b THEN a ELSE b
Backoff(attempt) == Least(BaseDelay * 2 ^ attempt, gc.max_delay)
Jitters(delay) == {0, delay \div 10}

\* a loop that always has an attempt left
RetriesLeftAlways(attempt, max_retries) == TRUE

\* line 139: attempt < self.max_retries - 1
RetriesLeft(attempt, max_retries) == attempt < max_retries - 1

NoResult == [t |-> "none"]

\* lines 35-68 and 151: a corrector and a call of correct(text)
NewCall(text, max_retries, max_delay) ==
  [pc |-> "c155", text |-> text, max_retries |-> max_retries,
   max_delay |-> max_delay, attempt |-> 0, response |-> None, e |-> <<>>,
   last_error |-> None, result |-> NoResult, answer |-> NoResult,
   calls |-> 0, outcomes |-> <<>>, slept |-> <<>>]

notGC == <<sandboxVars, isoVars, storeVars, uiVars>>

\* lines 155-160: the text must have three characters once stripped
CorrectCheck ==
  /\ gc.pc = "c155"
  /\ IF gc.text = <<>> \/ Len(Strip(gc.text)) < 3
       THEN gc' = [gc EXCEPT !.pc = "done",
                     !.answer = [t |-> "dict", success |-> FALSE,
                                 original |-> gc.text,
                                 error |-> <<"Please", "enter", "text">>]]
       ELSE gc' = [gc EXCEPT !.pc = "r114"]
  /\ UNCHANGED notGC

\* line 114: for attempt in range(self.max_retries)
ForAttempt ==
  /\ gc.pc = "r114"
  /\ gc' = [gc EXCEPT !.pc = IF gc.attempt < gc.max_retries
                               THEN "r118" ELSE "r147"]
  /\ UNCHANGED notGC

\* lines 116-121: the model answers
GenerateAnswers ==
  /\ gc.pc = "r118"
  /\ \E response \in Responses :
       gc' = [gc EXCEPT !.pc = "r123", !.response = response,
                        !.calls = @ + 1]
  /\ UNCHANGED notGC

\* lines 116-121: the model fails
GenerateFails ==
  /\ gc.pc = "r118"
  /\ \E msg \in Messages :
       gc' = [gc EXCEPT !.pc = "r129", !.e = msg, !.calls = @ + 1,
                        !.outcomes = Append(@, [ok |-> FALSE, msg |-> msg])]
  /\ UNCHANGED notGC

\* an extraction that returns whatever it finds
ExtractUnchecked ==
  /\ gc.pc = "r123"
  /\ LET corrected == extract_text(gc.response) IN
     gc' = [gc EXCEPT !.pc = "c164", !.response = None,
                      !.result = [t |-> "return", v |-> corrected],
                      !.outcomes = Append(@, [ok |-> TRUE, msg |-> corrected])]
  /\ UNCHANGED notGC

\* lines 123-127
Extract ==
  /\ gc.pc = "r123"
  /\ LET corrected == extract_text(gc.response) IN
     IF corrected = <<>>
       THEN gc' = [gc EXCEPT !.pc = "r129", !.response = None,
                     !.e = EmptyReply,
                     !.outcomes = Append(@, [ok |-> FALSE, msg |-> EmptyReply])]
       ELSE gc' = [gc EXCEPT !.pc = "c164", !.response = None,
                     !.result = [t |-> "return", v |-> corrected],
                     !.outcomes = Append(@, [ok |-> TRUE, msg |-> corrected])]
  /\ UNCHANGED notGC

\* lines 129-137
Classify ==
  /\ gc.pc = "r129"
  /\ IF is_rate_limit(gc.e)
       THEN gc' = [gc EXCEPT !.pc = "r139", !.e = <<>>,
                     !.last_error = Error("RateLimitError", gc.e)]
     ELSE IF is_authentication(gc.e)
       THEN gc' = [gc EXCEPT !.pc = "c170", !.e = <<>>,
                     !.result = Error("GrammarCorrectionError",
                                  <<"API authentication error:">> \o gc.e)]
     ELSE gc' = [gc EXCEPT !.pc = "r139", !.e = <<>>,
                   !.last_error = Error("GrammarCorrectionError",
                                    <<"AI generation failed:">> \o gc.e)]
  /\ UNCHANGED notGC

\* lines 139-145 and the end of the loop body
Sleep ==
  /\ gc.pc = "r139"
  /\ IF RetriesLeft(gc.attempt, gc.max_retries)
       THEN \E jitter \in Jitters(Backoff(gc.attempt)) :
              gc' = [gc EXCEPT !.pc = "r114", !.attempt = @ + 1,
                       !.slept = Append(@, [after |-> gc.attempt,
                                  delay |-> Backoff(gc.attempt) + jitter])]
       ELSE gc' = [gc EXCEPT !.pc = "r114", !.attempt = @ + 1]
  /\ UNCHANGED notGC

\* lines 147-149: raise last_error or GrammarCorrectionError(...)
RaiseLast ==
  /\ gc.pc = "r147"
  /\ gc' = [gc EXCEPT !.pc = "c170",
              !.result = IF gc.last_error # None THEN gc.last_error
                         ELSE Error("GrammarCorrectionError",
                                <<"Grammar correction failed after all retries">>)]
  /\ UNCHANGED notGC

\* lines 162-168
CorrectReturn ==
  /\ gc.pc = "c164"
  /\ gc' = [gc EXCEPT !.pc = "done",
              !.answer = [t |-> "dict", success |-> TRUE, original |-> gc.text,
                          corrected |-> gc.result.v]]
  /\ UNCHANGED notGC

\* lines 170-192: the first except clause the exception is an instance of
CorrectExcept ==
  /\ gc.pc = "c170"
  /\ LET failed(error) == [t |-> "dict", success |-> FALSE,
                           original |-> gc.text, error |-> error]
         type == gc.result.type
     IN gc' = [gc EXCEPT !.pc = "done", !.answer =
          IF IsInstance(type, "RateLimitError") THEN failed(RateLimitMessage)
          ELSE IF IsInstance(type, "GrammarCorrectionError")
            THEN failed(gc.result.msg)
          ELSE IF IsInstance(type, "Exception")
            THEN failed(<<"Unexpected error:">> \o gc.result.msg)
          ELSE gc.result]
  /\ UNCHANGED notGC

GrammarInit ==
  /\ SandboxIdle /\ IsoIdle /\ StoreIdle /\ UIIdle
  /\ \E text \in Texts, max_retries \in RetrySettings, max_delay \in MaxDelays :
       gc = NewCall(text, max_retries, max_delay)

GrammarNext ==
  \/ CorrectCheck \/ ForAttempt \/ GenerateAnswers \/ GenerateFails
  \/ Extract \/ Classify \/ Sleep \/ RaiseLast
  \/ CorrectReturn \/ CorrectExcept

GrammarSpec == GrammarInit /\ [][GrammarNext]_vars

\* ------------------------------------------- claims on the grammar corrector
Attempts == Len(gc.outcomes)
Finished == gc.pc # "none" /\ gc.result # NoResult

\* C37: the model is called at most max_retries times; a returned text is the
\* non-empty text of the last call made, every call before it having failed;
\* every sleep follows a failed attempt that is not the final one, lasts the
\* backoff of that attempt plus at most a tenth, and is followed by another
\* call; when max_retries attempts have failed the error raised is the one
\* classified from the last of them, a RateLimitError exactly when that
\* attempt was rate-limited
C37_RetryDiscipline ==
  gc.pc # "none" =>
    /\ gc.calls <= gc.max_retries
    /\ Attempts <= gc.calls
    /\ \A i \in 1..Len(gc.slept) :
         LET pause == gc.slept[i]
             least == Least(BaseDelay * 2 ^ (i - 1), gc.max_delay)
         IN /\ pause.after = i - 1
            /\ pause.after < gc.max_retries - 1
            /\ i <= Attempts /\ ~gc.outcomes[i].ok
            /\ least <= pause.delay /\ pause.delay <= least + least \div 10
    /\ Finished =>
         /\ Attempts = gc.calls
         /\ Len(gc.slept) = IF gc.calls = 0 THEN 0 ELSE gc.calls - 1
         /\ \A i \in 1..(Attempts - 1) : ~gc.outcomes[i].ok
    /\ (Finished /\ gc.result.t = "return") =>
         /\ gc.calls >= 1
         /\ gc.outcomes[Attempts].ok
         /\ gc.result.v = gc.outcomes[Attempts].msg
         /\ gc.result.v # <<>>
    /\ (Finished /\ gc.result.t = "raise" /\ gc.calls = gc.max_retries
          /\ gc.calls >= 1 /\ ~is_authentication(gc.outcomes[Attempts].msg)) =>
         LET last == gc.outcomes[Attempts].msg IN
         /\ ~gc.outcomes[Attempts].ok
         /\ (gc.result.type = "RateLimitError") = is_rate_limit(last)
         /\ gc.result.msg = IF is_rate_limit(last) THEN last
                            ELSE <<"AI generation failed:">> \o last

\* three attempts have failed, the first not rate-limited and the last
\* rate-limited, with two sleeps in between
C37_Witness ==
  /\ gc.pc = "done"
  /\ gc.calls = 3 /\ gc.max_retries = 3
  /\ Len(gc.slept) = 2
  /\ ~is_rate_limit(gc.outcomes[1].msg)
  /\ is_rate_limit(gc.outcomes[3].msg)
  /\ gc.result.t = "raise" /\ gc.result.type = "RateLimitError"

\* C38: a failure of the model whose message contains "api key" or
\* "authentication" is the last call made, no sleep follows it, and
\* _execute_with_retry ends by raising the authentication error
C38_AuthenticationNeverRetried ==
  gc.pc # "none" =>
    \A i \in 1..Attempts :
      (~gc.outcomes[i].ok /\ is_authentication(gc.outcomes[i].msg)) =>
        /\ i = Attempts /\ gc.calls = i
        /\ Len(gc.slept) < i
        /\ Finished =>
             gc.result = Error("GrammarCorrectionError",
               <<"API authentication error:">> \o gc.outcomes[i].msg)

\* C39: correct() ends with a record that has success and the text it was
\* given, with a non-empty corrected text when success is True and a non-empty
\* error message when it is False; when max_retries attempts were all
\* rate-limited the message is the rate-limit message
C39_AlwaysARecord ==
  gc.pc = "done" =>
    /\ gc.answer.t = "dict"
    /\ gc.answer.success \in BOOLEAN
    /\ gc.answer.original = gc.text
    /\ gc.answer.success => gc.answer.corrected # <<>>
    /\ ~gc.answer.success => gc.answer.error # <<>>
    /\ (gc.calls >= 1 /\ gc.calls = gc.max_retries
          /\ \A i \in 1..Attempts :
               ~gc.outcomes[i].ok /\ is_rate_limit(gc.outcomes[i].msg)) =>
         ~gc.answer.success /\ gc.answer.error = RateLimitMessage

\* correct() has answered after an empty response, a failure with an empty
\* message and a rate-limited failure
C39_Witness ==
  /\ gc.pc = "done"
  /\ gc.calls = 3
  /\ gc.outcomes[1] = [ok |-> FALSE, msg |-> EmptyReply]
  /\ gc.outcomes[2] = [ok |-> FALSE, msg |-> <<>>]
  /\ is_rate_limit(gc.outcomes[3].msg)
  /\ gc.answer.error = RateLimitMessage
====================================================================
